---- MODULE Spec2Model ----
(***************************************************************************)
(* A model of the AEI student portal: the express application of           *)
(* src/server.js (lines 1-1339, the database-backed revision) over the     *)
(* relational schema that initDb creates (src/db.js and the db.js revision *)
(* in src/unnamed/part_000).                                               *)
(*                                                                         *)
(* Text values are sequences of tokens: a token is a blank " ", or a run   *)
(* of non-blank characters.  A form field that is missing and a form field *)
(* that is empty are the same value <<>>: every use in server.js coerces   *)
(* undefined to "" (String(v || ""), String(v ?? ""), v || default).       *)
(*                                                                         *)
(* A handler is an operator from the session and the request to its        *)
(* outcome: the response, and the session and the database after the       *)
(* request; the action of the handler installs the outcome.                *)
(*                                                                         *)
(* The students table is the one of either revision of initDb: with the    *)
(* CHECK constraints on level and status (src/unnamed/part_000) or without *)
(* them (src/db.js); CREATE TABLE IF NOT EXISTS keeps whichever came first.*)
(*                                                                         *)
(* Three specifications share the actions: Spec (accounts, sessions and    *)
(* profiles), SpecStatus (one session, the level and status of a student)  *)
(* and SpecVault (accounts, sessions and documents).  SpecPublic adds the  *)
(* public forms, SpecDocs is the admin's session with every doc_type, and  *)
(* SpecErrors follows a request from its arrival through wrap to the error *)
(* handler.  SpecBoot is the start of two instances on one database:       *)
(* initDb statement by statement, beside app.listen.  SpecRoles is both    *)
(* browsers with logins, logouts, creates, deletes and the forms that      *)
(* carry level and status; SpecUpdates runs the admin's updates statement  *)
(* by statement; SpecIds is the revision src/unnamed/part_004, which       *)
(* generates the student identifier.  The sending of mail is not modelled: *)
(* sendEmail catches its own errors and writes no table.                   *)
(***************************************************************************)
EXTENDS Integers, Sequences, FiniteSets, TLC

\* ----------------------------------------------------------------- bounds
\* users_id_seq is not advanced beyond this value: the admin is user 1.
MaxUserId == 3
\* student_documents_id_seq is not advanced beyond this value.
MaxDocId == 2
\* access_requests_id_seq is not advanced beyond this value.
MaxRequestId == 2

\* ------------------------------------------------------ program constants
LEVELS == {1, 2, 3, 4}

STUDENT_STATUSES ==
  { <<"Pending Enrollment">>, <<"Active">>, <<"On Hold">>,
    <<"Completed">>, <<"Withdrawn">> }

DOC_TYPES ==
  { <<"ID">>, <<"Apprentice Card">>, <<"Journeyman Certificate">>,
    <<"Transcript">>, <<"Completion Certificate">>,
    <<"Affidavit of Experience">>, <<"RAPIDS Agreement">>, <<"Other">> }

\* process.env.ADMIN_EMAIL / ADMIN_PASSWORD as initDb's seed reads them.
ADMIN_EMAIL == <<"admin">>
ADMIN_PASSWORD == <<"root">>

\* ------------------------------------------------------------------ text
\* String.prototype.trim
RECURSIVE TrimLeft(_)
TrimLeft(s) ==
  IF s # <<>> /\ Head(s) = " " THEN TrimLeft(Tail(s)) ELSE s

RECURSIVE TrimRight(_)
TrimRight(s) ==
  IF s # <<>> /\ s[Len(s)] = " " THEN TrimRight(SubSeq(s, 1, Len(s) - 1)) ELSE s

Trim(s) == TrimRight(TrimLeft(s))

\* String.prototype.toLowerCase, token by token
LowerToken(c) ==
  CASE c = "A" -> "a"
    [] c = "B" -> "b"
    [] c = "ADMIN" -> "admin"
    [] OTHER -> c

ToLowerCase(s) == [i \in DOMAIN s |-> LowerToken(s[i])]

cleanEmail(v) == ToLowerCase(Trim(v))

cleanText(v) == Trim(v)

isBlank(v) == Trim(v) = <<>>

safeTempPasswordNull == <<"null">>

\* safeTempPassword: the trimmed input, or null when nothing is left
safeTempPassword(input) ==
  IF Trim(input) # <<>> THEN Trim(input) ELSE safeTempPasswordNull

\* bcrypt.hashSync(password, 10) and bcrypt.compareSync(password, hash)
hashSync(password) == <<"$2a$10$">> \o password

compareSync(password, hash) == hash = hashSync(password)

\* Number(value) for the values a form carries: blank text is 0, a numeral
\* (blanks around it ignored) is its value, anything else is NaN.
NumeralValue ==
  [t \in {"0", "1", "2", "3", "4", "5"} |->
     CASE t = "0" -> 0 [] t = "1" -> 1 [] t = "2" -> 2
       [] t = "3" -> 3 [] t = "4" -> 4 [] OTHER -> 5]

Number(v) ==
  LET t == Trim(v) IN
  IF t = <<>> THEN [nan |-> FALSE, val |-> 0]
  ELSE IF Len(t) = 1 /\ t[1] \in DOMAIN NumeralValue
       THEN [nan |-> FALSE, val |-> NumeralValue[t[1]]]
       ELSE [nan |-> TRUE, val |-> 0]

\* ----------------------------------------------------------------- state
VARIABLES
  students_checked,        \* the students table carries the CHECK constraints
  users,                   \* rows of users
  users_id_seq,            \* next value of users.id (BIGSERIAL)
  students,                \* rows of students
  students_id_seq,         \* next value of students.id
  employers,               \* rows of employers
  employers_id_seq,        \* next value of employers.id
  student_status_history,  \* rows of student_status_history
  student_documents,       \* rows of student_documents
  student_documents_id_seq,\* next value of student_documents.id
  uploadDir,               \* the files on disk: {[name, bytes]}
  access_requests,         \* rows of access_requests
  access_requests_id_seq,  \* next value of access_requests.id
  randomBytesDrawn,        \* how many values the uploads drew from crypto.randomBytes
  pending,                 \* the request each browser waits for, and how far it got
  boot,                    \* every server instance: how far its initDb got
  tables,                  \* the tables of the database
  issued,                  \* every students.student_id that was ever inserted
  session                  \* req.session.user of every browser session

vars ==
  << students_checked, users, users_id_seq, students, students_id_seq,
     employers, employers_id_seq, student_status_history, student_documents,
     student_documents_id_seq, uploadDir, access_requests,
     access_requests_id_seq, randomBytesDrawn, pending, boot, tables,
     issued, session >>

Sessions == {"s1", "s2"}

\* the server instances that share the database
Instances == {"i1", "i2"}

\* the tables initDb creates, in the order of its statements
SchemaTables ==
  << "users", "students", "employers", "student_status_history",
     "student_documents", "access_requests" >>

\* an instance whose initDb has returned
Ready ==
  [pc |-> "ready", rev |-> "part_000", done |-> Len(SchemaTables),
   changed |-> FALSE, found |-> FALSE, served |-> FALSE]

\* req.session.user when nobody is logged in
NoUser == [id |-> 0, email |-> <<>>, role |-> "none"]

\* ------------------------------------------------------------- responses
redirect(location, msg) ==
  [status |-> 302, location |-> location, msg |-> msg, body |-> ""]

render(view) ==
  [status |-> 200, location |-> "", msg |-> "", body |-> view]

send(status, body) ==
  [status |-> status, location |-> "", msg |-> "", body |-> body]

\* the top-level error handler: every error a handler does not catch
ServerError == send(500, "Server error. Check logs.")

\* no request of the browser is on its way
NoRequest ==
  [stage |-> "none", route |-> "", req |-> <<>>, done |-> 0,
   resp |-> send(0, "")]

\* the outcome of a request that changes nothing
Keep(response) ==
  [resp |-> response, session |-> session, users |-> users,
   users_id_seq |-> users_id_seq, students |-> students,
   students_id_seq |-> students_id_seq, employers |-> employers,
   employers_id_seq |-> employers_id_seq,
   history |-> student_status_history, documents |-> student_documents,
   documents_id_seq |-> student_documents_id_seq, files |-> uploadDir,
   requests |-> access_requests, requests_id_seq |-> access_requests_id_seq,
   drawn |-> randomBytesDrawn]

\* the writes of an outcome
Install(o) ==
  /\ session' = o.session
  /\ users' = o.users
  /\ users_id_seq' = o.users_id_seq
  /\ students' = o.students
  /\ students_id_seq' = o.students_id_seq
  /\ employers' = o.employers
  /\ employers_id_seq' = o.employers_id_seq
  /\ student_status_history' = o.history
  /\ student_documents' = o.documents
  /\ student_documents_id_seq' = o.documents_id_seq
  /\ uploadDir' = o.files
  /\ access_requests' = o.requests
  /\ access_requests_id_seq' = o.requests_id_seq
  /\ randomBytesDrawn' = o.drawn
  /\ UNCHANGED << students_checked, issued >>

\* the action that installs an outcome: a request served from its arrival to
\* its response in one step
Apply(o) == Install(o) /\ UNCHANGED << pending, boot, tables >>

\* C4, mutant: any session user passes, whatever the role.
requireRoleAnyUser(role, sid) == session[sid].id # 0

\* C8, mutant: the role is compared only when there is a session user.
requireRoleOfSessionUser(role, sid) ==
  ~ (session[sid].id # 0 /\ session[sid].role # role)

\* requireRole(role): the request goes on to the handler
requireRole(role, sid) ==
  ~ (session[sid].id = 0 \/ session[sid].role # role)

\* requireRole(role): the response when the request does not go on
requireRoleDenied == redirect("/login", "")

\* -------------------------------------------------------------- database
NoError == "00000"
UniqueViolation == "23505"
ForeignKeyViolation == "23503"

Ids(rows) == {r.id : r \in rows}

\* INSERT INTO users (email, password_hash, role) ... RETURNING id
\* email is UNIQUE; the id is drawn from the sequence before the row is checked.
InsertUser(email, hash, role) ==
  IF \E u \in users : u.email = email
  THEN [code |-> UniqueViolation, rows |-> users, id |-> users_id_seq]
  ELSE [code |-> NoError,
        rows |-> users \cup {[id |-> users_id_seq, email |-> email,
                              password_hash |-> hash, role |-> role]},
        id |-> users_id_seq]

\* C7, mutant: the catch tests for the code of a foreign-key violation.
isDuplicateEmailErrorWrongCode(code) == code = ForeignKeyViolation

\* isDuplicateEmailError(err): err.code === "23505"
isDuplicateEmailError(code) == code = UniqueViolation

\* INSERT INTO students (user_id) VALUES ($1): the column defaults
NewStudent(userId) ==
  [id |-> students_id_seq, user_id |-> userId, first_name |-> <<>>,
   program_name |-> <<>>, ethnicity |-> <<>>, occupation_name |-> <<>>,
   level |-> 1, status |-> <<"Pending Enrollment">>]

\* INSERT INTO employers (user_id) VALUES ($1)
NewEmployer(userId) ==
  [id |-> employers_id_seq, user_id |-> userId, company_name |-> <<>>]

\* CHECK (level BETWEEN 1 AND 4), CHECK (status IN (...)) of the students
\* table, when the table was created with them
StudentRowAllowed(row) ==
  students_checked =>
    (row.level \in 1..4 /\ row.status \in STUDENT_STATUSES)

\* C6, mutant: student_documents.student_id has no ON DELETE CASCADE, and
\* the documents of the student block the delete.
DeleteUserDocumentsBlock(userId) ==
  LET goneStudents == {s \in students : s.user_id = userId} IN
  IF \E d \in student_documents : d.student_id \in Ids(goneStudents)
  THEN [code |-> ForeignKeyViolation, users |-> users, students |-> students,
        employers |-> employers, documents |-> student_documents,
        history |-> student_status_history]
  ELSE [code |-> NoError,
        users |-> {u \in users : u.id # userId},
        students |-> students \ goneStudents,
        employers |-> {e \in employers : e.user_id # userId},
        documents |-> student_documents,
        history |-> student_status_history]

\* DELETE FROM users WHERE id=$1 with its cascades:
\*   students.user_id, employers.user_id          ON DELETE CASCADE
\*   student_documents.student_id                 ON DELETE CASCADE
\*   student_status_history.student_id            ON DELETE CASCADE
\*   student_documents.uploaded_by_user_id        no action (blocks)
\*   student_status_history.changed_by_user_id    no action (blocks)
DeleteUser(userId) ==
  LET goneStudents == {s \in students : s.user_id = userId}
      keptDocs == {d \in student_documents : d.student_id \notin Ids(goneStudents)}
      keptHist == {h \in student_status_history :
                     h.student_id \notin Ids(goneStudents)}
  IN IF (\E d \in keptDocs : d.uploaded_by_user_id = userId)
        \/ (\E h \in keptHist : h.changed_by_user_id = userId)
     THEN [code |-> ForeignKeyViolation, users |-> users, students |-> students,
           employers |-> employers, documents |-> student_documents,
           history |-> student_status_history]
     ELSE [code |-> NoError,
           users |-> {u \in users : u.id # userId},
           students |-> students \ goneStudents,
           employers |-> {e \in employers : e.user_id # userId},
           documents |-> keptDocs,
           history |-> keptHist]

\* ------------------------------------------------------------------ Init
\* The database after initDb on an empty database with ADMIN_EMAIL and
\* ADMIN_PASSWORD set; the students table is the one of either db.js revision.
Init ==
  /\ students_checked \in BOOLEAN
  /\ users = {[id |-> 1, email |-> cleanEmail(ADMIN_EMAIL),
               password_hash |-> hashSync(Trim(ADMIN_PASSWORD)), role |-> "admin"]}
  /\ users_id_seq = 2
  /\ students = {}
  /\ students_id_seq = 1
  /\ employers = {}
  /\ employers_id_seq = 1
  /\ student_status_history = {}
  /\ student_documents = {}
  /\ student_documents_id_seq = 1
  /\ uploadDir = {}
  /\ access_requests = {}
  /\ access_requests_id_seq = 1
  /\ randomBytesDrawn = 0
  /\ pending = [sid \in Sessions |-> NoRequest]
  /\ boot = [i \in Instances |-> Ready]
  /\ tables = {SchemaTables[k] : k \in 1..Len(SchemaTables)}
  /\ issued = {}
  /\ session = [sid \in Sessions |-> NoUser]

\* -------------------------------------------------------------- requests
\* req.body: every field a form of the portal carries
EmptyBody ==
  [email |-> <<>>, password |-> <<>>, temp_password |-> <<>>,
   first_name |-> <<>>, ssn |-> <<>>, ssn_not_provided |-> <<>>,
   level |-> <<>>, status |-> <<>>, program_name |-> <<>>,
   ethnicity |-> <<>>, occupation_name |-> <<>>, role |-> <<>>, note |-> <<>>,
   company_name |-> <<>>, doc_type |-> <<>>]

\* req.file when the form carries no file
NoFile == [present |-> FALSE, originalname |-> <<>>, bytes |-> ""]

\* A request: the :id of the route, the body, the uploaded file, and the two
\* values the handler reads while it runs (the upload's clock,
\* randomPassword())
Request(id, body, file, seed, random) ==
  [id |-> id, body |-> body, file |-> file, seed |-> seed, random |-> random]

\* ------------------------------------------------------------------ auth
\* C11, mutant: the two failures of a login are told apart, as in the
\* revision of src/unnamed/part_011.
PostLoginTellsApart(sid, req) ==
  LET rows == {u \in users : u.email = cleanEmail(req.body.email)} IN
  IF rows = {} THEN Keep(redirect("/login", "User not found"))
  ELSE IF ~ compareSync(req.body.password,
                        (CHOOSE u \in rows : TRUE).password_hash)
  THEN Keep(redirect("/login", "Invalid password"))
  ELSE LET u == CHOOSE r \in rows : TRUE IN
       [Keep(redirect(CASE u.role = "admin" -> "/admin"
                        [] u.role = "student" -> "/student"
                        [] u.role = "employer" -> "/employer"
                        [] OTHER -> "/login", ""))
          EXCEPT !.session = [session EXCEPT ![sid] =
                                [id |-> u.id, email |-> u.email, role |-> u.role]]]

\* C25, mutant: the password of the form is not compared with the hash.
PostLoginAnyPassword(sid, req) ==
  LET rows == {u \in users : u.email = cleanEmail(req.body.email)} IN
  IF rows = {}
  THEN Keep(redirect("/login", "Invalid email or password"))
  ELSE LET u == CHOOSE r \in rows : TRUE IN
       [Keep(redirect(CASE u.role = "admin" -> "/admin"
                        [] u.role = "student" -> "/student"
                        [] u.role = "employer" -> "/employer"
                        [] OTHER -> "/login", ""))
          EXCEPT !.session = [session EXCEPT ![sid] =
                                [id |-> u.id, email |-> u.email, role |-> u.role]]]

\* POST /login
PostLogin(sid, req) ==
  LET rows == {u \in users : u.email = cleanEmail(req.body.email)} IN
  IF rows = {}
     \/ ~ compareSync(req.body.password, (CHOOSE u \in rows : TRUE).password_hash)
  THEN Keep(redirect("/login", "Invalid email or password"))
  ELSE LET u == CHOOSE r \in rows : TRUE IN
       [Keep(redirect(CASE u.role = "admin" -> "/admin"
                        [] u.role = "student" -> "/student"
                        [] u.role = "employer" -> "/employer"
                        [] OTHER -> "/login", ""))
          EXCEPT !.session = [session EXCEPT ![sid] =
                                [id |-> u.id, email |-> u.email, role |-> u.role]]]

\* GET /logout
GetLogout(sid, req) ==
  [Keep(redirect("/login", "")) EXCEPT !.session = [session EXCEPT ![sid] = NoUser]]

\* ---------------------------------------------------------- public forms
\* INSERT INTO access_requests (request_type, email, requested_role, note)
NewAccessRequest(type, email, role, note) ==
  [id |-> access_requests_id_seq, request_type |-> type, email |-> email,
   requested_role |-> role, note |-> note]

\* C12, mutant: the form's role is not compared with the two roles.
PostRegisterAnyRole(sid, req) ==
  IF cleanEmail(req.body.email) = <<>>
  THEN Keep(redirect("/register", "Email and role are required."))
  ELSE [Keep(redirect("/login", "Request received. American Electrical Innovations Ltd. will follow up if approved."))
          EXCEPT !.requests = access_requests \cup
                   {NewAccessRequest("register", cleanEmail(req.body.email),
                                     cleanText(req.body.role),
                                     cleanText(req.body.note))},
                 !.requests_id_seq = access_requests_id_seq + 1]

\* POST /register
PostRegister(sid, req) ==
  IF cleanEmail(req.body.email) = <<>>
     \/ cleanText(req.body.role) \notin {<<"student">>, <<"employer">>}
  THEN Keep(redirect("/register", "Email and role are required."))
  ELSE [Keep(redirect("/login", "Request received. American Electrical Innovations Ltd. will follow up if approved."))
          EXCEPT !.requests = access_requests \cup
                   {NewAccessRequest("register", cleanEmail(req.body.email),
                                     cleanText(req.body.role),
                                     cleanText(req.body.note))},
                 !.requests_id_seq = access_requests_id_seq + 1]

\* C19, mutant: a reset request takes the place of the requests queued for
\* the same email.
PostResetPasswordReplacing(sid, req) ==
  IF cleanEmail(req.body.email) = <<>>
  THEN Keep(redirect("/reset-password", "Email is required."))
  ELSE [Keep(redirect("/login", "Reset request received. American Electrical Innovations Ltd. will follow up."))
          EXCEPT !.requests =
                   {r \in access_requests : r.email # cleanEmail(req.body.email)}
                   \cup
                   {NewAccessRequest("reset_password", cleanEmail(req.body.email),
                                     <<>>, cleanText(req.body.note))},
                 !.requests_id_seq = access_requests_id_seq + 1]

\* POST /reset-password
PostResetPassword(sid, req) ==
  IF cleanEmail(req.body.email) = <<>>
  THEN Keep(redirect("/reset-password", "Email is required."))
  ELSE [Keep(redirect("/login", "Reset request received. American Electrical Innovations Ltd. will follow up."))
          EXCEPT !.requests = access_requests \cup
                   {NewAccessRequest("reset_password", cleanEmail(req.body.email),
                                     <<>>, cleanText(req.body.note))},
                 !.requests_id_seq = access_requests_id_seq + 1]

\* ---------------------------------------------------- admin: create users
\* createUser({email, role, tempPasswordInput}); random is randomPassword()
createUser(email, role, tempPasswordInput, random) ==
  LET tempPassword == safeTempPassword(tempPasswordInput)
      password == IF tempPassword # safeTempPasswordNull THEN tempPassword ELSE random
  IN InsertUser(email, hashSync(password), role)

\* POST /admin/students/create
PostAdminStudentsCreate(sid, req) ==
  IF ~ requireRole("admin", sid) THEN Keep(requireRoleDenied)
  ELSE IF cleanEmail(req.body.email) = <<>>
  THEN Keep(redirect("/admin", "Email required"))
  ELSE LET r == createUser(cleanEmail(req.body.email), "student",
                           req.body.temp_password, req.random) IN
       IF r.code = NoError
       THEN [Keep(redirect("/admin", "Student created"))
               EXCEPT !.users = r.rows,
                      !.users_id_seq = users_id_seq + 1,
                      !.students = students \cup {NewStudent(r.id)},
                      !.students_id_seq = students_id_seq + 1]
       ELSE IF isDuplicateEmailError(r.code)
       THEN [Keep(redirect("/admin", "Email already exists"))
               EXCEPT !.users_id_seq = users_id_seq + 1]
       ELSE [Keep(ServerError) EXCEPT !.users_id_seq = users_id_seq + 1]

\* C14, mutant: the employer's user is created with the role of the
\* student route.
PostAdminEmployersCreateAsStudent(sid, req) ==
  IF ~ requireRole("admin", sid) THEN Keep(requireRoleDenied)
  ELSE IF cleanEmail(req.body.email) = <<>>
  THEN Keep(redirect("/admin", "Email required"))
  ELSE LET r == createUser(cleanEmail(req.body.email), "student",
                           req.body.temp_password, req.random) IN
       IF r.code = NoError
       THEN [Keep(redirect("/admin", "Employer created"))
               EXCEPT !.users = r.rows,
                      !.users_id_seq = users_id_seq + 1,
                      !.employers = employers \cup {NewEmployer(r.id)},
                      !.employers_id_seq = employers_id_seq + 1]
       ELSE IF isDuplicateEmailError(r.code)
       THEN [Keep(redirect("/admin", "Email already exists"))
               EXCEPT !.users_id_seq = users_id_seq + 1]
       ELSE [Keep(ServerError) EXCEPT !.users_id_seq = users_id_seq + 1]

\* POST /admin/employers/create
PostAdminEmployersCreate(sid, req) ==
  IF ~ requireRole("admin", sid) THEN Keep(requireRoleDenied)
  ELSE IF cleanEmail(req.body.email) = <<>>
  THEN Keep(redirect("/admin", "Email required"))
  ELSE LET r == createUser(cleanEmail(req.body.email), "employer",
                           req.body.temp_password, req.random) IN
       IF r.code = NoError
       THEN [Keep(redirect("/admin", "Employer created"))
               EXCEPT !.users = r.rows,
                      !.users_id_seq = users_id_seq + 1,
                      !.employers = employers \cup {NewEmployer(r.id)},
                      !.employers_id_seq = employers_id_seq + 1]
       ELSE IF isDuplicateEmailError(r.code)
       THEN [Keep(redirect("/admin", "Email already exists"))
               EXCEPT !.users_id_seq = users_id_seq + 1]
       ELSE [Keep(ServerError) EXCEPT !.users_id_seq = users_id_seq + 1]

\* ------------------------------------------------------- admin: students
\* The level parameter of the admin update: Number(req.body.level || 1)
LevelParam(level) ==
  IF level = <<>> THEN [nan |-> FALSE, val |-> 1] ELSE Number(level)

\* the validation of the identity form (first_name stands for the twelve
\* required fields, all tested the same way)
IdentityIncomplete(body) ==
  \/ isBlank(body.first_name)
  \/ (~ (body.ssn_not_provided = <<"on">>) /\ isBlank(body.ssn))

\* UPDATE students SET <identity columns>, level=$17, status=$18 WHERE id=$19
AdminIdentityRow(s, body) ==
  [s EXCEPT !.first_name = cleanText(body.first_name),
            !.level = LevelParam(body.level).val,
            !.status = cleanText(body.status)]

\* POST /admin/students/:id/update-identity
PostAdminStudentsUpdateIdentity(sid, req) ==
  IF ~ requireRole("admin", sid) THEN Keep(requireRoleDenied)
  ELSE IF IdentityIncomplete(req.body)
  THEN Keep(redirect("/admin/students/:id",
                     "Please complete all required identity fields."))
  ELSE IF \/ LevelParam(req.body.level).nan
          \/ \E s \in students :
               s.id = req.id /\ ~ StudentRowAllowed(AdminIdentityRow(s, req.body))
  THEN Keep(ServerError)
  ELSE [Keep(redirect("/admin/students/:id", "Identity / Progress updated"))
          EXCEPT !.students =
            {IF s.id = req.id THEN AdminIdentityRow(s, req.body) ELSE s :
               s \in students}]

\* the validation of the RAPIDS form (program_name stands for the six
\* required fields)
RapidsIncomplete(body) == isBlank(body.program_name)

\* UPDATE students SET <RAPIDS columns>
RapidsRow(s, body) == [s EXCEPT !.program_name = cleanText(body.program_name)]

\* POST /admin/students/:id/update-rapids
PostAdminStudentsUpdateRapids(sid, req) ==
  IF ~ requireRole("admin", sid) THEN Keep(requireRoleDenied)
  ELSE IF RapidsIncomplete(req.body)
  THEN Keep(redirect("/admin/students/:id",
                     "Please complete all required RAPIDS fields."))
  ELSE [Keep(redirect("/admin/students/:id", "RAPIDS fields updated"))
          EXCEPT !.students =
            {IF s.id = req.id THEN RapidsRow(s, req.body) ELSE s : s \in students}]

\* the validation of the demographics form (ethnicity stands for the five
\* required fields)
DemographicsIncomplete(body) == isBlank(body.ethnicity)

\* UPDATE students SET <demographics columns>
DemographicsRow(s, body) == [s EXCEPT !.ethnicity = cleanText(body.ethnicity)]

\* POST /admin/students/:id/update-demographics
PostAdminStudentsUpdateDemographics(sid, req) ==
  IF ~ requireRole("admin", sid) THEN Keep(requireRoleDenied)
  ELSE IF DemographicsIncomplete(req.body)
  THEN Keep(redirect("/admin/students/:id",
                     "Please complete all required demographics fields."))
  ELSE [Keep(redirect("/admin/students/:id", "Demographics updated"))
          EXCEPT !.students =
            {IF s.id = req.id THEN DemographicsRow(s, req.body) ELSE s :
               s \in students}]

\* the validation of the occupation form (occupation_name stands for the
\* thirteen required fields)
OccupationIncomplete(body) == isBlank(body.occupation_name)

\* UPDATE students SET <occupation columns>
OccupationRow(s, body) ==
  [s EXCEPT !.occupation_name = cleanText(body.occupation_name)]

\* POST /admin/students/:id/update-occupation
PostAdminStudentsUpdateOccupation(sid, req) ==
  IF ~ requireRole("admin", sid) THEN Keep(requireRoleDenied)
  ELSE IF OccupationIncomplete(req.body)
  THEN Keep(redirect("/admin/students/:id",
                     "Please complete all required occupation fields."))
  ELSE [Keep(redirect("/admin/students/:id", "Occupation details updated"))
          EXCEPT !.students =
            {IF s.id = req.id THEN OccupationRow(s, req.body) ELSE s :
               s \in students}]

\* GET /admin/students/:id
GetAdminStudent(sid, req) ==
  IF ~ requireRole("admin", sid) THEN Keep(requireRoleDenied)
  ELSE IF ~ \E s \in students :
              s.id = req.id /\ \E u \in users : u.id = s.user_id
  THEN Keep(redirect("/admin", "Student not found"))
  ELSE Keep(render("admin-student"))

\* the outcome of DELETE FROM users WHERE id=$1 in a delete route
DeleteOutcome(userId, done) ==
  LET d == DeleteUser(userId) IN
  IF d.code # NoError THEN Keep(ServerError)
  ELSE [Keep(redirect("/admin", done))
          EXCEPT !.users = d.users, !.students = d.students,
                 !.employers = d.employers, !.documents = d.documents,
                 !.history = d.history]

\* POST /admin/students/:id/delete
PostAdminStudentsDelete(sid, req) ==
  IF ~ requireRole("admin", sid) THEN Keep(requireRoleDenied)
  ELSE IF ~ \E s \in students : s.id = req.id
  THEN Keep(redirect("/admin", "Student not found"))
  ELSE DeleteOutcome((CHOOSE s \in students : s.id = req.id).user_id,
                     "Student deleted")

\* ------------------------------------------------------ admin: employers
\* the validation of the employer form (company_name stands for the three
\* required fields)
EmployerIncomplete(body) == isBlank(body.company_name)

\* UPDATE employers SET company_name=$1, contact_name=$2, phone=$3
EmployerRow(e, body) == [e EXCEPT !.company_name = cleanText(body.company_name)]

\* GET /admin/employers/:id
GetAdminEmployer(sid, req) ==
  IF ~ requireRole("admin", sid) THEN Keep(requireRoleDenied)
  ELSE IF ~ \E e \in employers :
              e.id = req.id /\ \E u \in users : u.id = e.user_id
  THEN Keep(redirect("/admin", "Employer not found"))
  ELSE Keep(render("admin-employer"))

\* POST /admin/employers/:id/update
PostAdminEmployersUpdate(sid, req) ==
  IF ~ requireRole("admin", sid) THEN Keep(requireRoleDenied)
  ELSE IF EmployerIncomplete(req.body)
  THEN Keep(redirect("/admin/employers/:id",
                     "Please complete all required employer fields."))
  ELSE [Keep(redirect("/admin/employers/:id", "Employer profile updated."))
          EXCEPT !.employers =
            {IF e.id = req.id THEN EmployerRow(e, req.body) ELSE e : e \in employers}]

\* POST /admin/employers/:id/delete
PostAdminEmployersDelete(sid, req) ==
  IF ~ requireRole("admin", sid) THEN Keep(requireRoleDenied)
  ELSE IF ~ \E e \in employers : e.id = req.id
  THEN Keep(redirect("/admin", "Employer not found"))
  ELSE DeleteOutcome((CHOOSE e \in employers : e.id = req.id).user_id,
                     "Employer deleted")

\* ------------------------------------------------------------ dashboards
\* GET /admin
GetAdmin(sid, req) ==
  IF ~ requireRole("admin", sid) THEN Keep(requireRoleDenied)
  ELSE Keep(render("admin"))

\* SELECT ... FROM students s JOIN users u ON u.id = s.user_id WHERE s.user_id=$1
StudentProfileRows(userId) ==
  {s \in students : s.user_id = userId /\ \E u \in users : u.id = s.user_id}

\* C30, mutant: the dashboard is rendered without looking at the rows the
\* SELECT returned.
GetStudentWithoutProfile(sid, req) ==
  IF ~ requireRole("student", sid) THEN Keep(requireRoleDenied)
  ELSE Keep(render("student"))

\* GET /student
GetStudent(sid, req) ==
  IF ~ requireRole("student", sid) THEN Keep(requireRoleDenied)
  ELSE IF StudentProfileRows(session[sid].id) = {}
  THEN Keep(redirect("/login", "Student profile not found. Contact AEI."))
  ELSE Keep(render("student"))

\* SELECT ... FROM employers e JOIN users u ON u.id = e.user_id WHERE e.user_id=$1
EmployerProfileRows(userId) ==
  {e \in employers : e.user_id = userId /\ \E u \in users : u.id = e.user_id}

\* GET /employer
GetEmployer(sid, req) ==
  IF ~ requireRole("employer", sid) THEN Keep(requireRoleDenied)
  ELSE IF EmployerProfileRows(session[sid].id) = {}
  THEN Keep(redirect("/login", "Employer profile not found. Contact AEI."))
  ELSE Keep(render("employer"))

\* ------------------------------------------------------ student requests
\* C3, mutant: the student's form also writes the status it carries.
StudentIdentityRowWithStatus(s, body) ==
  [s EXCEPT !.first_name = cleanText(body.first_name),
            !.status = cleanText(body.status)]

\* C22, mutant: the student's form also writes the level it carries.
StudentIdentityRowWithLevel(s, body) ==
  [s EXCEPT !.first_name = cleanText(body.first_name),
            !.level = Number(body.level).val]

\* UPDATE students SET <identity columns> WHERE user_id=$17
StudentIdentityRow(s, body) == [s EXCEPT !.first_name = cleanText(body.first_name)]

\* C10, mutant: the UPDATE has no WHERE clause.
PostStudentUpdateIdentityAllRows(sid, req) ==
  IF ~ requireRole("student", sid) THEN Keep(requireRoleDenied)
  ELSE IF IdentityIncomplete(req.body)
  THEN Keep(redirect("/student", "Please complete all required identity fields."))
  ELSE [Keep(redirect("/student", "Profile updated."))
          EXCEPT !.students = {StudentIdentityRow(s, req.body) : s \in students}]

\* POST /student/update-identity
PostStudentUpdateIdentity(sid, req) ==
  IF ~ requireRole("student", sid) THEN Keep(requireRoleDenied)
  ELSE IF IdentityIncomplete(req.body)
  THEN Keep(redirect("/student", "Please complete all required identity fields."))
  ELSE [Keep(redirect("/student", "Profile updated."))
          EXCEPT !.students =
            {IF s.user_id = session[sid].id
             THEN StudentIdentityRow(s, req.body) ELSE s : s \in students}]

\* POST /student/update-rapids
PostStudentUpdateRapids(sid, req) ==
  IF ~ requireRole("student", sid) THEN Keep(requireRoleDenied)
  ELSE IF RapidsIncomplete(req.body)
  THEN Keep(redirect("/student", "Please complete all required RAPIDS fields."))
  ELSE [Keep(redirect("/student", "RAPIDS fields updated."))
          EXCEPT !.students =
            {IF s.user_id = session[sid].id
             THEN RapidsRow(s, req.body) ELSE s : s \in students}]

\* POST /student/update-demographics
PostStudentUpdateDemographics(sid, req) ==
  IF ~ requireRole("student", sid) THEN Keep(requireRoleDenied)
  ELSE IF DemographicsIncomplete(req.body)
  THEN Keep(redirect("/student",
                     "Please complete all required demographics fields."))
  ELSE [Keep(redirect("/student", "Demographics updated."))
          EXCEPT !.students =
            {IF s.user_id = session[sid].id
             THEN DemographicsRow(s, req.body) ELSE s : s \in students}]

\* POST /student/update-occupation
PostStudentUpdateOccupation(sid, req) ==
  IF ~ requireRole("student", sid) THEN Keep(requireRoleDenied)
  ELSE IF OccupationIncomplete(req.body)
  THEN Keep(redirect("/student", "Please complete all required occupation fields."))
  ELSE [Keep(redirect("/student", "Occupation details updated."))
          EXCEPT !.students =
            {IF s.user_id = session[sid].id
             THEN OccupationRow(s, req.body) ELSE s : s \in students}]

\* ------------------------------------------------------- document vault
\* The tokens /[^a-zA-Z0-9._-]+/ matches
UnsafeTokens == {" ", "/", "#"}

\* file.originalname.replace(/[^a-zA-Z0-9._-]+/g, "_"): every run of unsafe
\* tokens becomes one "_"
RECURSIVE safe(_)
safe(name) ==
  IF name = <<>> THEN <<>>
  ELSE IF Head(name) \in UnsafeTokens
  THEN IF Len(name) > 1 /\ name[2] \in UnsafeTokens
       THEN safe(Tail(name))
       ELSE <<"_">> \o safe(Tail(name))
  ELSE <<Head(name)>> \o safe(Tail(name))

\* crypto.randomBytes(8).toString("hex"): the n-th value drawn; a value is
\* not drawn twice
randomBytes(n) == "r" \o ToString(n)

\* C16, mutant: the name is made of the clock and the original name only.
StoredFilenameOfClock(now, rand, originalname) ==
  <<now, "_">> \o safe(originalname)

\* multer's filename: `${Date.now()}_${rand}_${safe}`
StoredFilename(now, rand, originalname) ==
  <<now, "_", rand, "_">> \o safe(originalname)

\* multer's disk storage writes the file, replacing a file of the same name
WriteFile(name, bytes) ==
  {f \in uploadDir : f.name # name} \cup {[name |-> name, bytes |-> bytes]}

\* C5, mutant: the stored name is looked up without the upload directory.
existsSyncOutsideUploadDir(name) ==
  \E f \in uploadDir : f.name = <<"uploads/">> \o name

\* fs.existsSync(path.join(uploadDir, name))
existsSync(name) == \E f \in uploadDir : f.name = name

\* the bytes res.download sends
ReadFile(name) == (CHOOSE f \in uploadDir : f.name = name).bytes

\* the row INSERT INTO student_documents adds
NewDocument(studentId, userId, body, file, stored) ==
  [id |-> student_documents_id_seq, student_id |-> studentId,
   uploaded_by_user_id |-> userId,
   doc_type |-> IF cleanText(body.doc_type) # <<>>
                THEN cleanText(body.doc_type) ELSE <<"Other">>,
   original_filename |-> file.originalname, stored_filename |-> stored]

\* student_documents.student_id REFERENCES students(id),
\* student_documents.uploaded_by_user_id REFERENCES users(id)
DocumentRowAllowed(row) ==
  /\ row.student_id \in Ids(students)
  /\ row.uploaded_by_user_id \in Ids(users)

\* POST /admin/students/:id/docs/upload
PostAdminStudentsDocsUpload(sid, req) ==
  IF ~ requireRole("admin", sid) THEN Keep(requireRoleDenied)
  ELSE IF ~ req.file.present
  THEN Keep(redirect("/admin/students/:id", "No file selected"))
  ELSE LET stored == StoredFilename(req.seed, randomBytes(randomBytesDrawn + 1),
                                    req.file.originalname)
           row == NewDocument(req.id, session[sid].id, req.body, req.file, stored)
       IN IF ~ DocumentRowAllowed(row)
          THEN [Keep(ServerError)
                  EXCEPT !.files = WriteFile(stored, req.file.bytes),
                         !.drawn = randomBytesDrawn + 1,
                         !.documents_id_seq = student_documents_id_seq + 1]
          ELSE [Keep(redirect("/admin/students/:id", "Document uploaded"))
                  EXCEPT !.files = WriteFile(stored, req.file.bytes),
                         !.drawn = randomBytesDrawn + 1,
                         !.documents = student_documents \cup {row},
                         !.documents_id_seq = student_documents_id_seq + 1]

\* res.download(filePath): the file's bytes as an attachment
download(name) == send(200, ReadFile(name))

\* C13, mutant: the file is sent without looking for it first, and the
\* failure of res.download goes to the error handler.
GetAdminDocsDownloadUnguarded(sid, req) ==
  IF ~ requireRole("admin", sid) THEN Keep(requireRoleDenied)
  ELSE IF ~ \E d \in student_documents : d.id = req.id
  THEN Keep(send(404, "Not found"))
  ELSE LET doc == CHOOSE d \in student_documents : d.id = req.id IN
       IF existsSync(doc.stored_filename)
       THEN Keep(download(doc.stored_filename))
       ELSE Keep(ServerError)

\* GET /admin/docs/:docId/download
GetAdminDocsDownload(sid, req) ==
  IF ~ requireRole("admin", sid) THEN Keep(requireRoleDenied)
  ELSE IF ~ \E d \in student_documents : d.id = req.id
  THEN Keep(send(404, "Not found"))
  ELSE LET doc == CHOOSE d \in student_documents : d.id = req.id IN
       IF ~ existsSync(doc.stored_filename)
       THEN Keep(send(404, "File missing"))
       ELSE Keep(download(doc.stored_filename))

\* ---------------------------------------------------------------- routes
ProtectedRoutes ==
  {"GET /admin", "POST /admin/students/create", "POST /admin/employers/create",
   "POST /admin/students/:id/update-identity",
   "POST /admin/students/:id/update-rapids",
   "POST /admin/students/:id/update-demographics",
   "POST /admin/students/:id/update-occupation",
   "GET /admin/students/:id", "GET /admin/employers/:id",
   "POST /admin/students/:id/delete",
   "POST /admin/employers/:id/update", "POST /admin/employers/:id/delete",
   "POST /admin/students/:id/docs/upload", "GET /admin/docs/:docId/download",
   "GET /student", "POST /student/update-identity", "POST /student/update-rapids",
   "POST /student/update-demographics", "POST /student/update-occupation",
   "GET /employer"}

Routes ==
  ProtectedRoutes \cup
    {"POST /login", "GET /logout", "POST /register", "POST /reset-password"}

\* the role of the requireRole(...) a protected route is registered with
RequiredRole(route) ==
  CASE route \in {"GET /student", "POST /student/update-identity",
                  "POST /student/update-rapids",
                  "POST /student/update-demographics",
                  "POST /student/update-occupation"} -> "student"
    [] route = "GET /employer" -> "employer"
    [] OTHER -> "admin"

\* the express router: the handler the route is registered with
Handle(route, sid, req) ==
  CASE route = "POST /login" -> PostLogin(sid, req)
    [] route = "GET /logout" -> GetLogout(sid, req)
    [] route = "POST /register" -> PostRegister(sid, req)
    [] route = "POST /reset-password" -> PostResetPassword(sid, req)
    [] route = "GET /admin" -> GetAdmin(sid, req)
    [] route = "POST /admin/students/create" -> PostAdminStudentsCreate(sid, req)
    [] route = "POST /admin/employers/create" -> PostAdminEmployersCreate(sid, req)
    [] route = "POST /admin/students/:id/update-identity" ->
         PostAdminStudentsUpdateIdentity(sid, req)
    [] route = "POST /admin/students/:id/update-rapids" ->
         PostAdminStudentsUpdateRapids(sid, req)
    [] route = "POST /admin/students/:id/update-demographics" ->
         PostAdminStudentsUpdateDemographics(sid, req)
    [] route = "POST /admin/students/:id/update-occupation" ->
         PostAdminStudentsUpdateOccupation(sid, req)
    [] route = "GET /admin/students/:id" -> GetAdminStudent(sid, req)
    [] route = "GET /admin/employers/:id" -> GetAdminEmployer(sid, req)
    [] route = "POST /student/update-demographics" ->
         PostStudentUpdateDemographics(sid, req)
    [] route = "POST /student/update-occupation" ->
         PostStudentUpdateOccupation(sid, req)
    [] route = "POST /admin/students/:id/delete" -> PostAdminStudentsDelete(sid, req)
    [] route = "POST /admin/employers/:id/update" -> PostAdminEmployersUpdate(sid, req)
    [] route = "POST /admin/employers/:id/delete" -> PostAdminEmployersDelete(sid, req)
    [] route = "POST /admin/students/:id/docs/upload" ->
         PostAdminStudentsDocsUpload(sid, req)
    [] route = "GET /admin/docs/:docId/download" -> GetAdminDocsDownload(sid, req)
    [] route = "GET /student" -> GetStudent(sid, req)
    [] route = "POST /student/update-identity" -> PostStudentUpdateIdentity(sid, req)
    [] route = "POST /student/update-rapids" -> PostStudentUpdateRapids(sid, req)
    [] OTHER -> GetEmployer(sid, req)

\* --------------------------------------------------------------- actions
\* One action per route: the request is served and its outcome installed.
\* The routes that draw from a sequence stop at the bound of the sequence.
Login(sid, req) == Apply(PostLogin(sid, req))

Register(sid, req) ==
  /\ access_requests_id_seq <= MaxRequestId
  /\ Apply(PostRegister(sid, req))

ResetPassword(sid, req) ==
  /\ access_requests_id_seq <= MaxRequestId
  /\ Apply(PostResetPassword(sid, req))

Logout(sid) == Apply(GetLogout(sid, Request(0, EmptyBody, NoFile, "", <<>>)))

AdminDashboard(sid) ==
  Apply(GetAdmin(sid, Request(0, EmptyBody, NoFile, "", <<>>)))

AdminStudentsCreate(sid, req) ==
  /\ users_id_seq <= MaxUserId
  /\ Apply(PostAdminStudentsCreate(sid, req))

AdminEmployersCreate(sid, req) ==
  /\ users_id_seq <= MaxUserId
  /\ Apply(PostAdminEmployersCreate(sid, req))

AdminStudentsUpdateIdentity(sid, req) ==
  Apply(PostAdminStudentsUpdateIdentity(sid, req))

AdminStudentsUpdateRapids(sid, req) ==
  Apply(PostAdminStudentsUpdateRapids(sid, req))

AdminStudentsUpdateDemographics(sid, req) ==
  Apply(PostAdminStudentsUpdateDemographics(sid, req))

AdminStudentsUpdateOccupation(sid, req) ==
  Apply(PostAdminStudentsUpdateOccupation(sid, req))

AdminStudentPage(sid, req) == Apply(GetAdminStudent(sid, req))

AdminEmployerPage(sid, req) == Apply(GetAdminEmployer(sid, req))

StudentUpdateDemographics(sid, req) ==
  Apply(PostStudentUpdateDemographics(sid, req))

StudentUpdateOccupation(sid, req) == Apply(PostStudentUpdateOccupation(sid, req))

AdminStudentsDelete(sid, req) == Apply(PostAdminStudentsDelete(sid, req))

AdminEmployersUpdate(sid, req) == Apply(PostAdminEmployersUpdate(sid, req))

AdminEmployersDelete(sid, req) == Apply(PostAdminEmployersDelete(sid, req))

AdminStudentsDocsUpload(sid, req) ==
  /\ student_documents_id_seq <= MaxDocId
  /\ Apply(PostAdminStudentsDocsUpload(sid, req))

AdminDocsDownload(sid, req) == Apply(GetAdminDocsDownload(sid, req))

StudentDashboard(sid) ==
  Apply(GetStudent(sid, Request(0, EmptyBody, NoFile, "", <<>>)))

StudentUpdateIdentity(sid, req) == Apply(PostStudentUpdateIdentity(sid, req))

StudentUpdateRapids(sid, req) == Apply(PostStudentUpdateRapids(sid, req))

EmployerDashboard(sid) ==
  Apply(GetEmployer(sid, Request(0, EmptyBody, NoFile, "", <<>>)))

\* ---------------------------------------------------------------- inputs
\* a request that carries only a route parameter
IdRequest(id) == Request(id, EmptyBody, NoFile, "", <<>>)

IdInputs == 1..MaxUserId

DocIdInputs == 1..MaxDocId

LoginRequests ==
  {Request(0, [EmptyBody EXCEPT !.email = e, !.password = p], NoFile, "", <<>>) :
     e \in {<<"ADMIN", " ">>, <<"a">>, <<"b">>}, p \in {<<"root">>, <<"pw">>}}

\* the public forms: with and without an email, with each role, with a role
\* the portal does not offer, and without a role
RegisterRequests ==
  {Request(0, [EmptyBody EXCEPT !.email = e, !.role = r], NoFile, "", <<>>) :
     e \in {<<" ">>, <<"A", " ">>},
     r \in {<<>>, <<"student">>, <<" ", "employer">>, <<"admin">>}}

\* the create forms: no email, two emails, one of them also in another case
\* and with blanks around it
CreateRequests ==
  {Request(0, [EmptyBody EXCEPT !.email = e, !.temp_password = <<" ", "pw">>],
           NoFile, "", <<"rnd">>) :
     e \in {<<>>, <<"a">>, <<" ", "A", " ">>, <<"b">>}}

\* the admin identity forms of the account specification
AdminIdentityRequests ==
  {Request(id, [EmptyBody EXCEPT !.first_name = f, !.ssn_not_provided = <<"on">>,
                                 !.status = <<"Active">>], NoFile, "", <<>>) :
     id \in IdInputs, f \in {<<>>, <<"Ann">>}}

StudentIdentityRequests ==
  {Request(0, [EmptyBody EXCEPT !.first_name = f, !.ssn = n,
                                !.level = <<"4">>, !.status = <<"Completed">>],
           NoFile, "", <<>>) :
     f \in {<<" ">>, <<"Ann", " ">>}, n \in {<<>>, <<"123">>}}

RapidsRequests ==
  {Request(id, [EmptyBody EXCEPT !.program_name = p], NoFile, "", <<>>) :
     id \in IdInputs, p \in {<<>>, <<"Electrical">>}}

DemographicsRequests ==
  {Request(id, [EmptyBody EXCEPT !.ethnicity = v], NoFile, "", <<>>) :
     id \in IdInputs, v \in {<<" ">>, <<"Hispanic">>}}

OccupationRequests ==
  {Request(id, [EmptyBody EXCEPT !.occupation_name = v], NoFile, "", <<>>) :
     id \in IdInputs, v \in {<<>>, <<" ", "Electrician">>}}

EmployerRequests ==
  {Request(id, [EmptyBody EXCEPT !.company_name = c], NoFile, "", <<>>) :
     id \in IdInputs, c \in {<<>>, <<"Acme">>}}

\* ------------------------------------------------------ the account model
\* Accounts, sessions and profiles: every route but the document vault.
Next ==
  \/ \E sid \in Sessions, req \in LoginRequests : Login(sid, req)
  \/ \E sid \in Sessions : Logout(sid)
  \/ \E sid \in Sessions : AdminDashboard(sid)
  \/ \E sid \in Sessions, req \in CreateRequests : AdminStudentsCreate(sid, req)
  \/ \E sid \in Sessions, req \in CreateRequests : AdminEmployersCreate(sid, req)
  \/ \E sid \in Sessions, req \in AdminIdentityRequests :
       AdminStudentsUpdateIdentity(sid, req)
  \/ \E sid \in Sessions, req \in DemographicsRequests :
       AdminStudentsUpdateDemographics(sid, req)
  \/ \E sid \in Sessions, req \in OccupationRequests :
       StudentUpdateOccupation(sid, req)
  \/ \E sid \in Sessions, id \in IdInputs : AdminStudentPage(sid, IdRequest(id))
  \/ \E sid \in Sessions, id \in IdInputs : AdminEmployerPage(sid, IdRequest(id))
  \/ \E sid \in Sessions, id \in IdInputs : AdminStudentsDelete(sid, IdRequest(id))
  \/ \E sid \in Sessions, req \in EmployerRequests : AdminEmployersUpdate(sid, req)
  \/ \E sid \in Sessions, id \in IdInputs : AdminEmployersDelete(sid, IdRequest(id))
  \/ \E sid \in Sessions : StudentDashboard(sid)
  \/ \E sid \in Sessions, req \in StudentIdentityRequests :
       StudentUpdateIdentity(sid, req)
  \/ \E sid \in Sessions : EmployerDashboard(sid)

Spec == Init /\ [][Next]_vars

\* ------------------------------------------------------- the status model
\* One browser session and one email: the admin's work on a student's
\* level and status.
StatusInputs ==
  {<<>>, <<"Pending Enrollment">>, <<"Active">>, <<" ", "On Hold">>,
   <<"Completed">>, <<"Withdrawn">>, <<"Bogus">>}

LevelInputs == {<<>>, <<"4">>, <<"5">>, <<"x">>}

StatusRequests ==
  {Request(id, [EmptyBody EXCEPT !.first_name = f, !.ssn = <<"123">>,
                                 !.level = l, !.status = st], NoFile, "", <<>>) :
     id \in 1..2, f \in {<<>>, <<"Ann">>}, l \in LevelInputs, st \in StatusInputs}

StatusCreateRequests ==
  {r \in CreateRequests : cleanEmail(r.body.email) = <<"a">>}

NextStatus ==
  \/ \E req \in LoginRequests : Login("s1", req)
  \/ \E req \in StatusCreateRequests : AdminStudentsCreate("s1", req)
  \/ \E req \in StatusRequests : AdminStudentsUpdateIdentity("s1", req)
  \/ \E req \in RapidsRequests : AdminStudentsUpdateRapids("s1", req)
  \/ \E req \in StudentIdentityRequests : StudentUpdateIdentity("s1", req)
  \/ \E req \in RapidsRequests : StudentUpdateRapids("s1", req)
  \/ \E req \in OccupationRequests : AdminStudentsUpdateOccupation("s1", req)
  \/ \E req \in DemographicsRequests : StudentUpdateDemographics("s1", req)
  \/ \E id \in IdInputs : AdminStudentsDelete("s1", IdRequest(id))

SpecStatus == Init /\ [][NextStatus]_vars

\* -------------------------------------------------------- the vault model
\* Accounts, sessions and the documents of the students.
FileInputs ==
  {NoFile,
   [present |-> TRUE, originalname |-> <<"card", ".pdf">>, bytes |-> "B1"],
   [present |-> TRUE, originalname |-> <<"my", " ", "/", "card">>, bytes |-> "B2"]}

\* Date.now() of an upload: the uploads run in the same millisecond
NameSeeds == {"t1"}

\* the first file is uploaded for student 1 and the second, with a document
\* type, for student 2; a form without a file is posted too
UploadRequests ==
  {Request(IF f.bytes = "B2" THEN 2 ELSE 1,
           [EmptyBody EXCEPT !.doc_type = IF f.bytes = "B2" THEN <<"ID", " ">>
                                          ELSE <<>>], f, seed, <<>>) :
     f \in FileInputs, seed \in NameSeeds}

DownloadRequests == {IdRequest(id) : id \in DocIdInputs}

VaultCreateRequests ==
  {r \in CreateRequests : r.body.email \in {<<"a">>, <<"b">>}}

VaultIdentityRequests ==
  {r \in StudentIdentityRequests : r.body.ssn # <<>>}

\* The upload directory is on the instance's own disk unless UPLOAD_DIR names
\* a persistent one: a restart of the instance starts with an empty directory.
UploadDirLost ==
  /\ uploadDir # {}
  /\ uploadDir' = {}
  /\ UNCHANGED << students_checked, users, users_id_seq, students,
                  students_id_seq, employers, employers_id_seq,
                  student_status_history, student_documents,
                  student_documents_id_seq, access_requests,
                  access_requests_id_seq, randomBytesDrawn, pending,
                  boot, tables, issued, session >>

\* the admin works in the browser s1, the students and employers in s2
VaultLogins ==
  {<<sid, req>> \in Sessions \X LoginRequests :
     sid = "s1" <=> cleanEmail(req.body.email) = cleanEmail(ADMIN_EMAIL)}

NextVault ==
  \/ \E l \in VaultLogins : Login(l[1], l[2])
  \/ \E sid \in Sessions : Logout(sid)
  \/ \E sid \in Sessions, req \in VaultCreateRequests : AdminStudentsCreate(sid, req)
  \/ \E sid \in Sessions, req \in VaultCreateRequests : AdminEmployersCreate(sid, req)
  \/ \E sid \in Sessions, req \in UploadRequests : AdminStudentsDocsUpload(sid, req)
  \/ \E sid \in Sessions, req \in DownloadRequests : AdminDocsDownload(sid, req)
  \/ \E sid \in Sessions, req \in VaultIdentityRequests :
       StudentUpdateIdentity(sid, req)
  \/ \E sid \in Sessions, id \in IdInputs : AdminStudentsDelete(sid, IdRequest(id))
  \/ UploadDirLost

SpecVault == Init /\ [][NextVault]_vars

\* ------------------------------------------------- requests of the claims
\* The requests a claim about "any request" to a route ranges over.
Requests(route) ==
  CASE route = "POST /login" -> LoginRequests
    [] route \in {"POST /register", "POST /reset-password"} -> RegisterRequests
    [] route \in {"POST /admin/students/create", "POST /admin/employers/create"} ->
         CreateRequests
    [] route = "POST /admin/students/:id/update-identity" -> AdminIdentityRequests
    [] route \in {"POST /admin/students/:id/update-rapids",
                  "POST /student/update-rapids"} -> RapidsRequests
    [] route \in {"POST /admin/students/:id/update-demographics",
                  "POST /student/update-demographics"} -> DemographicsRequests
    [] route \in {"POST /admin/students/:id/update-occupation",
                  "POST /student/update-occupation"} -> OccupationRequests
    [] route \in {"POST /admin/students/:id/delete",
                  "POST /admin/employers/:id/delete",
                  "GET /admin/students/:id", "GET /admin/employers/:id"} ->
         {IdRequest(id) : id \in IdInputs}
    [] route = "POST /admin/employers/:id/update" -> EmployerRequests
    [] route = "POST /admin/students/:id/docs/upload" -> UploadRequests
    [] route = "GET /admin/docs/:docId/download" -> DownloadRequests
    [] route = "POST /student/update-identity" -> StudentIdentityRequests
    [] OTHER -> {IdRequest(0)}

\* the same, with every status and level an admin's form is tried with
StatusModelRequests(route) ==
  IF route = "POST /admin/students/:id/update-identity"
  THEN StatusRequests ELSE Requests(route)

\* ------------------------------------------------------------- claim C1
\* C1: every step that changes a student's status appends a row to
\* student_status_history that records the student, the old status and the
\* new status (so the rows of a student count the changes of its status).
C1_StatusChangeAppendsHistory ==
  [][\A s \in students : \A t \in students' :
       (s.id = t.id /\ s.status # t.status) =>
         \E h \in student_status_history' \ student_status_history :
           /\ h.student_id = s.id
           /\ h.old_status = s.status
           /\ h.new_status = t.status]_vars

\* ------------------------------------------------------------- claim C2
\* C2: an admin update that carries a status outside STUDENT_STATUSES leaves
\* the students table and the history as they are, and every student's
\* status is one of STUDENT_STATUSES in every reachable state.
C2_InvalidStatusRejected ==
  /\ \A sid \in Sessions, req \in StatusRequests :
       (requireRole("admin", sid) /\ cleanText(req.body.status) \notin STUDENT_STATUSES)
         => LET o == PostAdminStudentsUpdateIdentity(sid, req) IN
            o.students = students /\ o.history = student_status_history
  /\ \A s \in students : s.status \in STUDENT_STATUSES

\* ------------------------------------------------------------- claim C3
\* C3 as claimed: a step changes a student's status only along the edges
\* Pending Enrollment -> Active, Active -> On Hold, Active -> Completed,
\* Active -> Withdrawn, On Hold -> Active.
C3_OnlyLifecycleEdges ==
  [][\A s \in students : \A t \in students' :
       (s.id = t.id /\ s.status # t.status) =>
         << s.status, t.status >> \in
           { << <<"Pending Enrollment">>, <<"Active">> >>,
             << <<"Active">>, <<"On Hold">> >>,
             << <<"Active">>, <<"Completed">> >>,
             << <<"Active">>, <<"Withdrawn">> >>,
             << <<"On Hold">>, <<"Active">> >> }]_vars

\* C3 as amended: whatever the request, a student's status changes only when
\* an admin session posts the identity form of that student, and the new
\* status is the trimmed status of the form, whatever the old status was.
C3_StatusSetOnlyByAdminForm ==
  \A sid \in Sessions, route \in Routes :
    \A req \in StatusModelRequests(route) :
      LET o == Handle(route, sid, req) IN
      \A s \in students : \A t \in o.students :
        (s.id = t.id /\ s.status # t.status) =>
          /\ route = "POST /admin/students/:id/update-identity"
          /\ session[sid].role = "admin"
          /\ s.id = req.id
          /\ t.status = cleanText(req.body.status)

\* C3, witness: a withdrawn student whom an admin's form makes active again.
C3_WithdrawnMadeActive ==
  \E sid \in Sessions, req \in StatusRequests, s \in students :
    /\ session[sid].role = "admin"
    /\ s.status = <<"Withdrawn">>
    /\ s.id = req.id
    /\ \E t \in PostAdminStudentsUpdateIdentity(sid, req).students :
         t.id = s.id /\ t.status = <<"Active">>

\* ------------------------------------------------------------- claim C7
\* C7: when an admin posts a create form whose normalised email is the email
\* of an existing user, the answer is 'Email already exists' and the users,
\* students and employers tables stay as they are; and no two users ever
\* have the same email.
C7_DuplicateEmailRejected ==
  /\ \A sid \in Sessions, req \in CreateRequests :
       \A route \in {"POST /admin/students/create", "POST /admin/employers/create"} :
         (/\ requireRole("admin", sid)
          /\ \E u \in users : u.email = ToLowerCase(Trim(req.body.email)))
           => LET o == Handle(route, sid, req) IN
              /\ o.resp = redirect("/admin", "Email already exists")
              /\ o.users = users
              /\ o.students = students
              /\ o.employers = employers
  /\ \A u \in users, v \in users : u.email = v.email => u.id = v.id

\* C7, witness: a student's email, in another case and with blanks around
\* it, is posted again by an admin and refused.
C7_DuplicateRefused ==
  \E sid \in Sessions, req \in CreateRequests, u \in users :
    /\ requireRole("admin", sid)
    /\ u.role = "student"
    /\ req.body.email # u.email
    /\ ToLowerCase(Trim(req.body.email)) = u.email
    /\ PostAdminEmployersCreate(sid, req).resp.msg = "Email already exists"
    /\ users_id_seq - 2 > (students_id_seq - 1) + (employers_id_seq - 1)

\* ------------------------------------------------------------- claim C8
\* C8: a request to an admin, student or employer route from a session
\* without a user is answered with the redirect to /login, whatever the
\* database holds, and leaves the session, the tables and the files as they
\* are.
C8_AnonymousRedirectedToLogin ==
  \A sid \in Sessions, route \in ProtectedRoutes :
    \A req \in Requests(route) :
      session[sid].id = 0 =>
        Handle(route, sid, req) = Keep(redirect("/login", ""))

\* C8, witness: a session without a user, while students and documents
\* exist, asks for a student to be deleted and is sent to /login.
C8_AnonymousDeleteRefused ==
  \E sid \in Sessions, s \in students :
    /\ session[sid].id = 0
    /\ \E d \in student_documents : d.student_id = s.id
    /\ PostAdminStudentsDelete(sid, IdRequest(s.id)).resp.location = "/login"
    /\ PostAdminStudentsDelete(sid, IdRequest(s.id)).students = students

\* ------------------------------------------------------------- claim C9
\* C9: a request from a session whose user has another role than the route
\* requires is answered 403 Forbidden, not with the redirect to /login, and
\* leaves the tables and the files as they are.
C9_RoleMismatchForbidden ==
  \A sid \in Sessions, route \in ProtectedRoutes :
    \A req \in Requests(route) :
      (session[sid].id # 0 /\ session[sid].role # RequiredRole(route)) =>
        LET o == Handle(route, sid, req) IN
        /\ o.resp.status = 403
        /\ o.resp # redirect("/login", "")
        /\ [o EXCEPT !.resp = ServerError] = Keep(ServerError)

\* ------------------------------------------------------------ claim C10
\* C10: whatever a session of a student requests, the users, employers,
\* documents, history and files stay as they are, no students row is added
\* or removed, and every students row of another user stays as it is.
C10_StudentChangesOwnRowOnly ==
  \A sid \in Sessions, route \in Routes :
    \A req \in Requests(route) :
      session[sid].role = "student" =>
        LET o == Handle(route, sid, req) IN
        /\ o.users = users
        /\ o.employers = employers
        /\ o.documents = student_documents
        /\ o.history = student_status_history
        /\ o.files = uploadDir
        /\ Ids(o.students) = Ids(students)
        /\ Cardinality(o.students) = Cardinality(students)
        /\ \A s \in students : s.user_id # session[sid].id => s \in o.students

\* C10, witness: a student has changed the own row, another student's row is
\* as it was created, and a document exists.
C10_OwnRowChanged ==
  \E sid \in Sessions, s \in students, t \in students :
    /\ session[sid].role = "student"
    /\ s.user_id = session[sid].id
    /\ s.first_name = <<"Ann">>
    /\ t.user_id # session[sid].id
    /\ t.first_name = <<>>
    /\ student_documents # {}

\* ------------------------------------------------------------- claim C4
\* the student that owns a document is logged in in a session
Owns(sid, d) ==
  /\ session[sid].role = "student"
  /\ \E s \in students : s.id = d.student_id /\ s.user_id = session[sid].id

C5_AdminDownloadsAnyDocument ==
  \A sid \in Sessions, d \in student_documents :
    (session[sid].role = "admin"
       /\ \E f \in uploadDir : f.name = d.stored_filename) =>
      LET o == GetAdminDocsDownload(sid, IdRequest(d.id)) IN
      /\ o.resp.status = 200
      /\ \E f \in uploadDir : f.name = d.stored_filename /\ f.bytes = o.resp.body

\* C5, witness: an admin session, two stored documents of two students, and
\* a download that sends the bytes of the second file.
C5_TwoOwnersDownloaded ==
  \E sid \in Sessions, d \in student_documents, e \in student_documents :
    /\ session[sid].role = "admin"
    /\ d.student_id # e.student_id
    /\ \E f \in uploadDir : f.name = d.stored_filename
    /\ \E f \in uploadDir : f.name = e.stored_filename
    /\ GetAdminDocsDownload(sid, IdRequest(e.id)).resp = send(200, "B2")

\* ------------------------------------------------------------- claim C6
\* the tables without the rows that belong to a user: the user, its students
\* and employers rows, and the documents and history of its students
WithoutUser(userId) ==
  LET own == Ids({s \in students : s.user_id = userId}) IN
  [users |-> {u \in users : u.id # userId},
   students |-> {s \in students : s.user_id # userId},
   employers |-> {e \in employers : e.user_id # userId},
   documents |-> {d \in student_documents : d.student_id \notin own},
   history |-> {h \in student_status_history : h.student_id \notin own}]

\* the tables of an outcome
TablesOf(o) ==
  [users |-> o.users, students |-> o.students, employers |-> o.employers,
   documents |-> o.documents, history |-> o.history]

\* C6: when an admin deletes a student or an employer, the tables afterwards
\* are the tables before without the rows that belong to its user; and in
\* every state every students and employers row belongs to a user and every
\* document and history row to a student, so that no row of a deleted user
\* remains later.
C6_DeleteCascades ==
  /\ \A sid \in Sessions, s \in students :
       session[sid].role = "admin" =>
         TablesOf(PostAdminStudentsDelete(sid, IdRequest(s.id)))
           = WithoutUser(s.user_id)
  /\ \A sid \in Sessions, e \in employers :
       session[sid].role = "admin" =>
         TablesOf(PostAdminEmployersDelete(sid, IdRequest(e.id)))
           = WithoutUser(e.user_id)
  /\ \A s \in students : s.user_id \in Ids(users)
  /\ \A e \in employers : e.user_id \in Ids(users)
  /\ \A d \in student_documents : d.student_id \in Ids(students)
  /\ \A h \in student_status_history : h.student_id \in Ids(students)

\* C6, witness: an admin deletes a student that has a document while another
\* student has one too; only the other student's document is left.
C6_StudentWithDocumentDeleted ==
  \E sid \in Sessions, s \in students, d \in student_documents,
     e \in student_documents :
    /\ session[sid].role = "admin"
    /\ d.student_id = s.id
    /\ e.student_id # s.id
    /\ PostAdminStudentsDelete(sid, IdRequest(s.id)).documents = {e}

\* ------------------------------------------------------------ claim C11
\* the login names no user
UnknownEmail(req) ==
  ~ \E u \in users : u.email = ToLowerCase(Trim(req.body.email))

\* the login names a user and carries another password than the user's
WrongPassword(req) ==
  \E u \in users :
    /\ u.email = ToLowerCase(Trim(req.body.email))
    /\ u.password_hash # <<"$2a$10$">> \o req.body.password

\* C11: a login with an email of no user and a login with a user's email and
\* a wrong password have the same outcome: the same response, and the
\* session and the tables as they were.
C11_FailedLoginsAlike ==
  \A sid \in Sessions, r1 \in LoginRequests, r2 \in LoginRequests :
    (UnknownEmail(r1) /\ WrongPassword(r2)) =>
      /\ PostLogin(sid, r1) = PostLogin(sid, r2)
      /\ PostLogin(sid, r1) = Keep(PostLogin(sid, r1).resp)

\* C11, witness: a student exists and another email has no user; both
\* logins are answered 'Invalid email or password' in a session without a
\* user.
C11_BothFailuresSeen ==
  \E sid \in Sessions, r1 \in LoginRequests, r2 \in LoginRequests :
    /\ session[sid].id = 0
    /\ UnknownEmail(r1)
    /\ WrongPassword(r2)
    /\ \E u \in users : u.role = "student" /\ u.email = cleanEmail(r2.body.email)
    /\ PostLogin(sid, r1).resp.msg = "Invalid email or password"
    /\ PostLogin(sid, r2).resp.msg = "Invalid email or password"

\* ------------------------------------------------------- the public model
\* One email: the public forms next to the admin's work on one student.
PublicIdentityRequests ==
  {r \in AdminIdentityRequests : r.id = 1}

PublicStudentRequests ==
  {r \in StudentIdentityRequests : r.body.ssn # <<>>}

NextPublic ==
  \/ \E sid \in Sessions, req \in LoginRequests : Login(sid, req)
  \/ \E sid \in Sessions, req \in RegisterRequests : Register(sid, req)
  \/ \E sid \in Sessions, req \in RegisterRequests : ResetPassword(sid, req)
  \/ \E sid \in Sessions, req \in StatusCreateRequests :
       AdminStudentsCreate(sid, req)
  \/ \E sid \in Sessions, req \in PublicIdentityRequests :
       AdminStudentsUpdateIdentity(sid, req)
  \/ \E sid \in Sessions, req \in PublicStudentRequests :
       StudentUpdateIdentity(sid, req)

SpecPublic == Init /\ [][NextPublic]_vars

\* ------------------------------------------------------------ claim C12
\* the request fails the validation of its route: a blank required field of
\* a profile form, a blank email of a create form or a public form, a role
\* of the registration form that is neither student nor employer
FailsValidation(route, req) ==
  CASE route \in {"POST /admin/students/:id/update-identity",
                  "POST /student/update-identity"} ->
         \/ Trim(req.body.first_name) = <<>>
         \/ (req.body.ssn_not_provided # <<"on">> /\ Trim(req.body.ssn) = <<>>)
    [] route \in {"POST /admin/students/:id/update-rapids",
                  "POST /student/update-rapids"} ->
         Trim(req.body.program_name) = <<>>
    [] route \in {"POST /admin/students/:id/update-demographics",
                  "POST /student/update-demographics"} ->
         Trim(req.body.ethnicity) = <<>>
    [] route \in {"POST /admin/students/:id/update-occupation",
                  "POST /student/update-occupation"} ->
         Trim(req.body.occupation_name) = <<>>
    [] route = "POST /admin/employers/:id/update" ->
         Trim(req.body.company_name) = <<>>
    [] route \in {"POST /admin/students/create", "POST /admin/employers/create",
                  "POST /reset-password"} ->
         Trim(req.body.email) = <<>>
    [] route = "POST /register" ->
         \/ Trim(req.body.email) = <<>>
         \/ Trim(req.body.role) \notin {<<"student">>, <<"employer">>}
    [] OTHER -> FALSE

\* C12: a request that fails the validation of its route leaves the session,
\* every table, every sequence and the files as they are, and is answered
\* with a redirect; when the session may use the route, the redirect goes
\* back to the form with a message.
C12_ValidationHasNoSideEffect ==
  \A sid \in Sessions, route \in Routes :
    \A req \in Requests(route) :
      FailsValidation(route, req) =>
        LET o == Handle(route, sid, req) IN
        /\ o = Keep(o.resp)
        /\ o.resp.status = 302
        /\ (route \notin ProtectedRoutes \/ session[sid].role = RequiredRole(route))
             => (o.resp.msg # "" /\ o.resp.location # "/login")

\* C12, witness: a student with a filled profile and a queued request exist;
\* the student's form with a blank name and a registration as admin are
\* both answered with their message.
C12_InvalidFormsRefused ==
  \E sid \in Sessions, s \in students, r \in RegisterRequests,
     q \in StudentIdentityRequests :
    /\ s.user_id = session[sid].id
    /\ s.first_name = <<"Ann">>
    /\ access_requests # {}
    /\ Trim(q.body.first_name) = <<>>
    /\ PostStudentUpdateIdentity(sid, q).resp.msg
         = "Please complete all required identity fields."
    /\ r.body.role = <<"admin">>
    /\ Trim(r.body.email) # <<>>
    /\ PostRegister(sid, r).resp.msg = "Email and role are required."

\* ------------------------------------------------------------ claim C13
\* C13: when the row of a document exists and its stored file does not, the
\* download request of an admin session is answered 404 'File missing',
\* which is not the redirect a session without the admin role gets, and the
\* rows of the documents stay as they are.
C13_MissingFileIsNotFound ==
  \A sid \in Sessions, d \in student_documents :
    (session[sid].role = "admin"
       /\ ~ \E f \in uploadDir : f.name = d.stored_filename) =>
      LET o == GetAdminDocsDownload(sid, IdRequest(d.id)) IN
      /\ o.resp = send(404, "File missing")
      /\ o.resp # redirect("/login", "")
      /\ o.documents = student_documents
      /\ o = Keep(o.resp)

\* C13, witness: an admin session asks for a document of which only the
\* row is left, while the file of another document is stored.
C13_FileLost ==
  \E sid \in Sessions, d \in student_documents :
    /\ session[sid].role = "admin"
    /\ ~ \E f \in uploadDir : f.name = d.stored_filename
    /\ uploadDir # {}
    /\ GetAdminDocsDownload(sid, IdRequest(d.id)).resp.status = 404

\* ------------------------------------------------------------ claim C14
\* C14: every user has at most one profile, a students row or an employers
\* row and not both; every profile's user_id is the id of a user; the user
\* of a students row has the role student and the user of an employers row
\* the role employer.
C14_OneProfilePerUser ==
  /\ \A u \in users :
       Cardinality({s \in students : s.user_id = u.id})
         + Cardinality({e \in employers : e.user_id = u.id}) <= 1
  /\ \A s \in students :
       \E u \in users : u.id = s.user_id /\ u.role = "student"
  /\ \A e \in employers :
       \E u \in users : u.id = e.user_id /\ u.role = "employer"

\* C14, witness: a student and an employer with their profiles, next to the
\* admin, who has none.
C14_BothProfiles ==
  /\ \E s \in students : \E e \in employers : s.user_id # e.user_id
  /\ Cardinality(users) = 3

\* ------------------------------------------------------------ claim C15
\* C15: the level of every student is one of 1, 2, 3, 4 in every reachable
\* state, whatever level the admin's form carries.
C15_LevelInRange ==
  \A s \in students : s.level \in {1, 2, 3, 4}

\* ------------------------------------------------- the document-type model
\* One browser, the admin's; the upload form with every kind of doc_type.
\* doc_type as the form may carry it: none, one of the select's options, and
\* a value the select does not offer
DocTypeInputs == {<<>>, <<" ", "Transcript">>, <<"Bogus">>}

DocsUploadRequests ==
  {Request(id, [EmptyBody EXCEPT !.doc_type = t], f, seed, <<>>) :
     id \in {1, 2}, t \in DocTypeInputs,
     f \in {x \in FileInputs : x.bytes # "B2"}, seed \in NameSeeds}

NextDocs ==
  \/ \E req \in LoginRequests : Login("s1", req)
  \/ \E req \in VaultCreateRequests : AdminStudentsCreate("s1", req)
  \/ \E req \in DocsUploadRequests : AdminStudentsDocsUpload("s1", req)
  \/ \E req \in DownloadRequests : AdminDocsDownload("s1", req)
  \/ \E id \in IdInputs : AdminStudentsDelete("s1", IdRequest(id))

SpecDocs == Init /\ [][NextDocs]_vars

C17_OneRowOfListedType ==
  /\ \A sid \in Sessions : \A req \in DocsUploadRequests :
        LET o == PostAdminStudentsDocsUpload(sid, req) IN
        o.resp = redirect("/admin/students/:id", "Document uploaded") =>
          /\ student_documents \subseteq o.documents
          /\ Cardinality(o.documents \ student_documents) = 1
  /\ \A d \in student_documents : d.doc_type \in DOC_TYPES

\* ------------------------------------------------------------------- C18
\* C18: whenever the deletion of a student removes a document row (by the
\* cascade), the stored file of that document is no longer in the upload
\* directory, and the delete itself succeeds.
C18_DeleteRemovesStoredFile ==
  \A sid \in Sessions : \A id \in IdInputs :
    LET o == PostAdminStudentsDelete(sid, IdRequest(id)) IN
    \A d \in student_documents \ o.documents :
      /\ o.resp = redirect("/admin", "Student deleted")
      /\ ~ \E f \in o.files : f.name = d.stored_filename

\* ------------------------------------------------------------------- C19
\* C19: the public forms only queue. A valid POST /register or
\* POST /reset-password, from any session, adds exactly one access_requests
\* row and keeps the rows there were; and a request of a session that is not
\* logged in, to any route, leaves users, students and employers as they
\* are and every queued access_requests row in place and unchanged.
C19_PublicFormsOnlyQueue ==
  \A sid \in Sessions :
    /\ \A route \in {"POST /register", "POST /reset-password"} :
         \A req \in Requests(route) :
           ~ FailsValidation(route, req) =>
             LET o == Handle(route, sid, req) IN
             /\ access_requests \subseteq o.requests
             /\ Cardinality(o.requests \ access_requests) = 1
    /\ session[sid].id = 0 =>
         \A route \in Routes : \A req \in Requests(route) :
           LET o == Handle(route, sid, req) IN
           /\ o.users = users
           /\ o.students = students
           /\ o.employers = employers
           /\ access_requests \subseteq o.requests

\* C19, witness: a registration and a reset request of the same email are
\* queued, a student exists, and a browser that is not logged in is there to
\* post the forms again.
C19_BothFormsQueued ==
  \E r1 \in access_requests : \E r2 \in access_requests :
    /\ r1.request_type = "register"
    /\ r2.request_type = "reset_password"
    /\ r1.email = r2.email
    /\ students # {}
    /\ \E sid \in Sessions : session[sid].id = 0

\* ------------------------------------------------------ the request model
\* A request on its way: express hands it to the route's middleware, the
\* promise of the wrapped handler settles, and a rejection goes through
\* next(err) to the error handler. One browser, the admin's.
ErrorSessions == {"s1"}

\* the routes and requests sent in this model
ErrorRoutes ==
  {"POST /login", "POST /admin/students/create",
   "POST /admin/students/:id/docs/upload", "POST /admin/students/:id/delete"}

ErrorRequests(route) ==
  CASE route = "POST /login" ->
         {r \in LoginRequests : cleanEmail(r.body.email) = cleanEmail(ADMIN_EMAIL)}
    [] route = "POST /admin/students/create" ->
         {r \in VaultCreateRequests : r.body.email = <<"a">>}
    [] OTHER -> Requests(route)

\* the sequences of the database have a value left for the request
SequencesLeft(route) ==
  /\ route = "POST /admin/students/create" => users_id_seq <= MaxUserId
  /\ route = "POST /admin/students/:id/docs/upload" =>
       student_documents_id_seq <= MaxDocId

\* the request reaches the wrapped handler: the route has no requireRole, or
\* requireRole calls next()
ReachesHandler(route, sid) ==
  route \notin ProtectedRoutes \/ requireRole(RequiredRole(route), sid)

\* C20, mutant: the handler is registered without wrap (as in the revision
\* src/unnamed/part_008 157-178), and the rejection of its promise reaches
\* nobody.
wrapLeftOut(o) ==
  IF o.resp = ServerError THEN "unhandledRejection" ELSE "responded"

\* wrap(fn): Promise.resolve(fn(req, res, next)).catch(next)
wrap(o) == IF o.resp = ServerError THEN "next(err)" ELSE "responded"

\* the browser sends a request
Receive(sid, route, req) ==
  /\ pending[sid].stage \in {"none", "responded"}
  /\ SequencesLeft(route)
  /\ pending' = [pending EXCEPT ![sid] =
                   [stage |-> "handler", route |-> route, req |-> req,
                    done |-> 0, resp |-> NoRequest.resp]]
  /\ Install(Keep(NoRequest.resp))
  /\ UNCHANGED << boot, tables >>

\* the middleware and the handler of the route run to the end: the response
\* is sent, or the handler's promise is rejected after the writes it made
Settle(sid) ==
  /\ pending[sid].stage = "handler"
  /\ LET o == Handle(pending[sid].route, sid, pending[sid].req) IN
     /\ Install(o)
     /\ pending' = [pending EXCEPT ![sid] =
                      [stage |-> wrap(o), route |-> pending[sid].route,
                       req |-> <<>>, done |-> 0,
                       resp |-> IF o.resp = ServerError THEN NoRequest.resp
                                ELSE o.resp]]
     /\ UNCHANGED << boot, tables >>

\* the first query of the handler fails (the database cannot be reached):
\* the promise is rejected and nothing is written
QueryFails(sid) ==
  /\ pending[sid].stage = "handler"
  /\ ReachesHandler(pending[sid].route, sid)
  /\ Install(Keep(ServerError))
  /\ pending' = [pending EXCEPT ![sid] =
                   [stage |-> wrap(Keep(ServerError)),
                    route |-> pending[sid].route, req |-> <<>>,
                    done |-> 0, resp |-> NoRequest.resp]]
  /\ UNCHANGED << boot, tables >>

\* what a create has written when the query after createUser fails: the row
\* of users stays (the two INSERTs run on the pool, outside a transaction)
\* and the profile row is not there
AfterCreateUser(o) ==
  [Keep(ServerError) EXCEPT !.users = o.users, !.users_id_seq = o.users_id_seq]

\* the INSERT of the profile row fails after createUser has returned: the
\* promise is rejected with the error of the second query
ProfileInsertFails(sid) ==
  /\ pending[sid].stage = "handler"
  /\ pending[sid].route \in {"POST /admin/students/create",
                             "POST /admin/employers/create"}
  /\ LET o == Handle(pending[sid].route, sid, pending[sid].req) IN
     /\ o.users # users
     /\ Install(AfterCreateUser(o))
  /\ pending' = [pending EXCEPT ![sid] =
                   [stage |-> wrap(Keep(ServerError)),
                    route |-> pending[sid].route, req |-> <<>>,
                    done |-> 0, resp |-> NoRequest.resp]]
  /\ UNCHANGED << boot, tables >>

\* app.use((err, req, res, next) => ...): the error handler answers
ErrorHandler(sid) ==
  /\ pending[sid].stage = "next(err)"
  /\ Install(Keep(ServerError))
  /\ pending' = [pending EXCEPT ![sid] =
                   [stage |-> "responded", route |-> pending[sid].route,
                    req |-> <<>>, done |-> 0, resp |-> ServerError]]
  /\ UNCHANGED << boot, tables >>

NextErrors ==
  \/ \E sid \in ErrorSessions, route \in ErrorRoutes :
       \E req \in ErrorRequests(route) : Receive(sid, route, req)
  \/ \E sid \in ErrorSessions : Settle(sid)
  \/ \E sid \in ErrorSessions : QueryFails(sid)
  \/ \E sid \in ErrorSessions : ProfileInsertFails(sid)
  \/ \E sid \in ErrorSessions : ErrorHandler(sid)

\* every promise settles and express runs the middleware it is handed
SpecErrors ==
  /\ Init /\ [][NextErrors]_vars
  /\ \A sid \in ErrorSessions :
       /\ WF_vars(Settle(sid) \/ QueryFails(sid) \/ ProfileInsertFails(sid))
       /\ WF_vars(ErrorHandler(sid))

\* ------------------------------------------------------------------- C20
\* C20: every request that reaches its handler is answered, and a request
\* whose handler met an unexpected error (its promise was rejected) is
\* eventually answered by the error handler with the generic 500 response,
\* which carries nothing of the error.
C20_ErrorsGetGeneric500 ==
  \A sid \in ErrorSessions :
    /\ (pending[sid].stage = "handler") ~> (pending[sid].stage = "responded")
    /\ (pending[sid].stage \notin {"none", "handler", "responded"})
         ~> (pending[sid].stage = "responded" /\ pending[sid].resp = ServerError)

\* C20, witness: an upload for a student that does not exist has failed on
\* the foreign key after its file was written, and the error handler has
\* answered it.
C20_FailedUploadAnswered ==
  \E sid \in ErrorSessions :
    /\ pending[sid].stage = "responded"
    /\ pending[sid].route = "POST /admin/students/:id/docs/upload"
    /\ pending[sid].resp = ServerError
    /\ uploadDir # {}
    /\ student_documents = {}

\* ------------------------------------------------------- the start model
\* The start of the server instances on one database: initDb statement by
\* statement, in the revision of src/unnamed/part_000 (one statement after
\* the other on the pool, then the admin seed) or of src/db.js (one
\* transaction, no seed).
Revisions == {"part_000", "db.js"}

AllTables == {SchemaTables[k] : k \in 1..Len(SchemaTables)}

\* an instance that is not running
Off ==
  [pc |-> "off", rev |-> "part_000", done |-> 0, changed |-> FALSE,
   found |-> FALSE, served |-> FALSE]

\* the admin of an earlier start, and a user that has the configured admin
\* email with another password and role
SeededAdmin ==
  [id |-> 1, email |-> cleanEmail(ADMIN_EMAIL),
   password_hash |-> hashSync(Trim(ADMIN_PASSWORD)), role |-> "admin"]

OtherUserOfAdminEmail ==
  [id |-> 1, email |-> cleanEmail(ADMIN_EMAIL),
   password_hash |-> hashSync(<<"old">>), role |-> "student"]

\* the database before a start: new, or the one of an earlier start
InitBoot ==
  /\ students_checked \in BOOLEAN
  /\ \/ tables = {} /\ users = {} /\ users_id_seq = 1
     \/ /\ tables = AllTables
        /\ users \in {{SeededAdmin}, {OtherUserOfAdminEmail}}
        /\ users_id_seq = 2
  /\ students = {}
  /\ students_id_seq = 1
  /\ employers = {}
  /\ employers_id_seq = 1
  /\ student_status_history = {}
  /\ student_documents = {}
  /\ student_documents_id_seq = 1
  /\ uploadDir = {}
  /\ access_requests = {}
  /\ access_requests_id_seq = 1
  /\ randomBytesDrawn = 0
  /\ pending = [sid \in Sessions |-> NoRequest]
  /\ boot = [i \in Instances |-> Off]
  /\ issued = {}
  /\ session = [sid \in Sessions |-> NoUser]

\* the tables of the application are left alone
DataUnchanged ==
  UNCHANGED << students_checked, students, students_id_seq, employers,
               employers_id_seq, student_status_history, student_documents,
               student_documents_id_seq, uploadDir, access_requests,
               access_requests_id_seq, randomBytesDrawn, issued, session >>

\* node server.js: the bootstrap calls initDb()
Start(i, rev) ==
  /\ boot[i].pc \in {"off", "ready", "exited"}
  /\ boot' = [boot EXCEPT ![i] =
                [pc |-> IF rev = "db.js" THEN "begin" ELSE "create",
                 rev |-> rev, done |-> 0, changed |-> FALSE, found |-> FALSE,
                 served |-> FALSE]]
  /\ UNCHANGED << users, users_id_seq, tables, pending >>
  /\ DataUnchanged

\* part_000: the next CREATE TABLE IF NOT EXISTS, on the pool; changed says
\* that this call of initDb has added a table to the database
CreateTable(i) ==
  /\ boot[i].pc = "create"
  /\ boot[i].done < Len(SchemaTables)
  /\ tables' = tables \cup {SchemaTables[boot[i].done + 1]}
  /\ boot' = [boot EXCEPT ![i].done = boot[i].done + 1,
                          ![i].changed =
                            \/ boot[i].changed
                            \/ SchemaTables[boot[i].done + 1] \notin tables]
  /\ UNCHANGED << users, users_id_seq, pending >>
  /\ DataUnchanged

\* part_000: SELECT id FROM users WHERE email=$1
SeedSelect(i) ==
  /\ boot[i].pc = "create"
  /\ boot[i].done = Len(SchemaTables)
  /\ boot' = [boot EXCEPT ![i].pc = "seed",
                          ![i].found = \E u \in users :
                                         u.email = cleanEmail(ADMIN_EMAIL)]
  /\ UNCHANGED << users, users_id_seq, tables, pending >>
  /\ DataUnchanged

\* C21, mutant: the seed sets the password and the role of the user it
\* found to the configured ones.
SeedAdminOverwrite(found) ==
  IF found
  THEN [code |-> NoError,
        rows |-> {IF u.email = cleanEmail(ADMIN_EMAIL)
                  THEN [u EXCEPT !.password_hash = hashSync(Trim(ADMIN_PASSWORD)),
                                 !.role = "admin"]
                  ELSE u : u \in users},
        seq |-> users_id_seq]
  ELSE LET r == InsertUser(cleanEmail(ADMIN_EMAIL),
                           hashSync(Trim(ADMIN_PASSWORD)), "admin")
       IN [code |-> r.code, rows |-> r.rows, seq |-> users_id_seq + 1]

\* part_000: if (existing.rows.length === 0) INSERT INTO users ... 'admin'
SeedAdmin(found) ==
  IF found
  THEN [code |-> NoError, rows |-> users, seq |-> users_id_seq]
  ELSE LET r == InsertUser(cleanEmail(ADMIN_EMAIL),
                           hashSync(Trim(ADMIN_PASSWORD)), "admin")
       IN [code |-> r.code, rows |-> r.rows, seq |-> users_id_seq + 1]

\* the seed of instance i, with what its SELECT found
SeedOutcome(i) == SeedAdmin(boot[i].found)

\* part_000: the rest of initDb after the SELECT; an error of the INSERT
\* leaves initDb as an exception, and the bootstrap exits the process
SeedStep(i) ==
  /\ boot[i].pc = "seed"
  /\ LET r == SeedOutcome(i) IN
     /\ users' = r.rows
     /\ users_id_seq' = r.seq
     /\ boot' = [boot EXCEPT ![i].pc = IF r.code = NoError THEN "ready"
                                       ELSE "exited",
                             ![i].changed = boot[i].changed /\ r.code # NoError]
  /\ UNCHANGED << tables, pending >>
  /\ DataUnchanged

\* db.js: COMMIT of the transaction that holds every CREATE TABLE IF NOT
\* EXISTS
Commit(i) ==
  /\ boot[i].pc = "begin"
  /\ tables' = tables \cup AllTables
  /\ boot' = [boot EXCEPT ![i].pc = "ready", ![i].done = Len(SchemaTables),
                          ![i].changed = FALSE]
  /\ UNCHANGED << users, users_id_seq, pending >>
  /\ DataUnchanged

\* a statement of initDb fails (the connection is lost): db.js rolls the
\* transaction back, part_000 has no transaction; the bootstrap exits
InitDbFails(i) ==
  /\ boot[i].pc \in {"begin", "create", "seed"}
  /\ boot' = [boot EXCEPT ![i].pc = "exited"]
  /\ UNCHANGED << users, users_id_seq, tables, pending >>
  /\ DataUnchanged

\* app.listen(PORT) is called when the module is loaded, beside the
\* bootstrap that was started and not awaited: the instance takes requests
\* from its start until the process exits
Listening(i) == boot[i].pc \notin {"off", "exited"}

\* the outcome of POST /login on the instance; the
\* handler's SELECT on users is rejected while the table is not there
ServeOutcome(sid, req) ==
  IF "users" \in tables THEN PostLogin(sid, req) ELSE Keep(ServerError)

\* the instance i answers a POST /login of the admin's browser
Serve(i, sid, req) ==
  /\ Listening(i)
  /\ Install(ServeOutcome(sid, req))
  /\ boot' = [boot EXCEPT ![i].served = TRUE]
  /\ UNCHANGED << pending, tables >>

NextBoot ==
  \/ \E i \in Instances, rev \in Revisions : Start(i, rev)
  \/ \E i \in Instances :
       \E req \in {r \in LoginRequests :
                     /\ cleanEmail(r.body.email) = cleanEmail(ADMIN_EMAIL)
                     /\ r.body.password = ADMIN_PASSWORD} :
         Serve(i, "s1", req)
  \/ \E i \in Instances : CreateTable(i)
  \/ \E i \in Instances : SeedSelect(i)
  \/ \E i \in Instances : SeedStep(i)
  \/ \E i \in Instances : Commit(i)
  \/ \E i \in Instances : InitDbFails(i)

SpecBoot == InitBoot /\ [][NextBoot]_vars

\* ------------------------------------------------------------------- C21
\* C21: the admin seed is first-time only. The seed of an instance, whatever
\* its SELECT found and whatever the other instance did since, keeps every
\* user that has the admin email as it is; there is never more than one
\* users row with that email, and exactly one whenever an instance has
\* finished the initDb that seeds.
C21_SeedNeverOverwrites ==
  LET admins == {u \in users : u.email = cleanEmail(ADMIN_EMAIL)} IN
  /\ Cardinality(admins) <= 1
  /\ \A i \in Instances :
       /\ (boot[i].pc = "ready" /\ boot[i].rev = "part_000") =>
            Cardinality(admins) = 1
       /\ boot[i].pc = "seed" => admins \subseteq SeedOutcome(i).rows

\* C21, witness: both instances ran the seed on a new database at the same
\* time: one created the admin, the other's INSERT met the UNIQUE email.
C21_ConcurrentSeeds ==
  /\ boot["i1"].pc = "ready" /\ boot["i1"].rev = "part_000"
  /\ ~ boot["i1"].found
  /\ boot["i2"].pc = "exited" /\ boot["i2"].rev = "part_000"
  /\ boot["i2"].done = Len(SchemaTables) /\ ~ boot["i2"].found
  /\ users = {SeededAdmin}
  /\ users_id_seq = 3

\* -------------------------------------------------------- the roles model
\* Two browsers, one student and one employer account, the admin's status
\* form and the forms of the student.
RolesCreateRequests(email) == {r \in CreateRequests : r.body.email = email}

RolesStatusRequests ==
  {r \in StatusRequests :
     /\ r.body.first_name = <<"Ann">>
     /\ r.body.level = <<"4">>
     /\ r.body.status \in {<<"Active">>, <<"Withdrawn">>}}

NextRoles ==
  \/ \E sid \in Sessions, req \in LoginRequests : Login(sid, req)
  \/ \E sid \in Sessions : Logout(sid)
  \/ \E sid \in Sessions, req \in RolesCreateRequests(<<"a">>) :
       AdminStudentsCreate(sid, req)
  \/ \E sid \in Sessions, req \in RolesCreateRequests(<<"b">>) :
       AdminEmployersCreate(sid, req)
  \/ \E sid \in Sessions, req \in RolesStatusRequests :
       AdminStudentsUpdateIdentity(sid, req)
  \/ \E sid \in Sessions, req \in StudentIdentityRequests :
       StudentUpdateIdentity(sid, req)
  \/ \E sid \in Sessions, req \in OccupationRequests :
       StudentUpdateOccupation(sid, req)
  \/ \E sid \in Sessions, id \in IdInputs : AdminStudentsDelete(sid, IdRequest(id))
  \/ \E sid \in Sessions, id \in IdInputs : AdminEmployersDelete(sid, IdRequest(id))

SpecRoles == Init /\ [][NextRoles]_vars

\* ------------------------------------------------------ the update model
\* Two browsers of the admin; the update forms of the admin statement by
\* statement, so that the requests of the two browsers overlap.
UpdateRoutes ==
  {"POST /admin/students/:id/update-identity",
   "POST /admin/students/:id/update-rapids"}

\* C23, mutant: the handler writes the names with one UPDATE and the level
\* and the status with a second one.
AdminIdentitySetListsSplit == << {"first_name"}, {"level", "status"} >>

\* the SET list of every UPDATE the identity handler runs, in order
AdminIdentitySetLists == << {"first_name", "level", "status"} >>

\* the same for the RAPIDS handler
AdminRapidsSetLists == << {"program_name"} >>

SetLists(route) ==
  IF route = "POST /admin/students/:id/update-identity"
  THEN AdminIdentitySetLists ELSE AdminRapidsSetLists

\* row s with the columns cols as in row t
WriteColumns(s, t, cols) ==
  [c \in DOMAIN s |-> IF c \in cols THEN t[c] ELSE s[c]]

\* two filled identity forms that differ in every column, for two students
UpdateIdentityRequests ==
  {Request(id, [EmptyBody EXCEPT !.first_name = b[1], !.ssn = <<"123">>,
                                 !.level = b[2], !.status = b[3]],
           NoFile, "", <<>>) :
     id \in {1, 2},
     b \in {<< <<"Ann">>, <<"4">>, <<"Active">> >>,
            << <<"Bob">>, <<"2">>, <<" ", "On Hold">> >>}}

UpdateRequests(route) ==
  IF route = "POST /admin/students/:id/update-identity"
  THEN UpdateIdentityRequests
  ELSE {r \in RapidsRequests : r.id \in {1, 2}}

\* the next statement of the request of browser sid: the students table
\* after it, whether the handler is through, and the response it then sends
StatementOutcome(sid) ==
  LET p == pending[sid]
      o == Handle(p.route, sid, p.req)
      lists == SetLists(p.route)
  IN IF o.students = students
     THEN [students |-> students, last |-> TRUE, resp |-> o.resp]
     ELSE [students |->
             {IF s.id = p.req.id
              THEN WriteColumns(s, CHOOSE t \in o.students : t.id = s.id,
                                lists[p.done + 1])
              ELSE s : s \in students},
           last |-> p.done + 1 = Len(lists),
           resp |-> o.resp]

\* pool.query(UPDATE students ...) of a request on its way
Statement(sid) ==
  /\ pending[sid].stage = "handler"
  /\ pending[sid].route \in UpdateRoutes
  /\ LET out == StatementOutcome(sid) IN
     /\ Install([Keep(out.resp) EXCEPT !.students = out.students])
     /\ pending' = [pending EXCEPT ![sid] =
                      IF out.last
                      THEN [pending[sid] EXCEPT !.stage = wrap(Keep(out.resp)),
                                                !.resp = out.resp]
                      ELSE [pending[sid] EXCEPT !.done = pending[sid].done + 1]]
  /\ UNCHANGED << boot, tables >>

NextUpdates ==
  \/ \E sid \in Sessions, req \in LoginRequests :
       /\ cleanEmail(req.body.email) = cleanEmail(ADMIN_EMAIL)
       /\ Login(sid, req)
  \/ \E req \in VaultCreateRequests : AdminStudentsCreate("s1", req)
  \/ \E sid \in Sessions, route \in UpdateRoutes :
       \E req \in UpdateRequests(route) : Receive(sid, route, req)
  \/ \E sid \in Sessions : Statement(sid)

SpecUpdates == Init /\ [][NextUpdates]_vars

\* ------------------------------------------------------------------- C23
\* the columns the identity form writes
IdentityColumns(s) == << s.first_name, s.level, s.status >>

\* C23: the requests of the two browsers overlap in any way. The columns of
\* a student that the identity form writes are at any time the values of one
\* single form (the one whose UPDATE came last) or the values the row was
\* created with, never one form's name with the other form's level or
\* status; and a statement for one student leaves every other student's row
\* as it is and, in the student's own row, every column of the other form.
C23_UpdatesAreAtomic ==
  /\ \A s \in students :
       \/ IdentityColumns(s) = IdentityColumns(NewStudent(s.user_id))
       \/ \E r \in UpdateIdentityRequests :
            IdentityColumns(s) = IdentityColumns(AdminIdentityRow(s, r.body))
  /\ \A sid \in Sessions :
       (pending[sid].stage = "handler" /\ pending[sid].route \in UpdateRoutes) =>
         LET out == StatementOutcome(sid) IN
         \A s \in students :
           \E t \in out.students :
             /\ t.id = s.id
             /\ s.id # pending[sid].req.id => t = s
             /\ pending[sid].route = "POST /admin/students/:id/update-identity"
                  => t.program_name = s.program_name
             /\ pending[sid].route = "POST /admin/students/:id/update-rapids"
                  => IdentityColumns(t) = IdentityColumns(s)

\* C23, witness: the identity form of one browser for a student has taken
\* effect while the other browser's identity form for the same student, with
\* other values, was on its way and still is; the student has RAPIDS values
\* and another student exists.
C23_OverlappingUpdates ==
  \E s \in students, t \in students :
    /\ pending["s1"].stage = "handler"
    /\ pending["s1"].route = "POST /admin/students/:id/update-identity"
    /\ pending["s2"].stage = "responded"
    /\ pending["s2"].route = "POST /admin/students/:id/update-identity"
    /\ pending["s2"].req # <<>>
    /\ pending["s1"].req.id = s.id
    /\ pending["s2"].req.id = s.id
    /\ pending["s1"].req.body.first_name = <<"Ann">>
    /\ s.first_name = <<"Bob">>
    /\ s.status = <<"On Hold">>
    /\ s.program_name = <<"Electrical">>
    /\ requireRole("admin", "s1")
    /\ t.id # s.id

\* ------------------------------------------------------------------- C22
\* C22: whatever a session of a student or of an employer requests, on any
\* route and with any form, every student is still there afterwards with
\* the status and the level it had, the requester's own row included.
C22_StatusAndLevelAdminOnly ==
  \A sid \in Sessions, route \in Routes :
    session[sid].role \in {"student", "employer"} =>
      \A req \in StatusModelRequests(route) :
        LET o == Handle(route, sid, req) IN
        \A s \in students : \E t \in o.students :
          t.id = s.id /\ t.status = s.status /\ t.level = s.level

\* C22, witness: a student whom the admin made active is logged in, the own
\* identity form with a level and a status in it is one the handler accepts,
\* and an employer is logged in in the other browser.
C22_StudentPostedStatus ==
  \E sid \in Sessions, eid \in Sessions, s \in students :
    /\ session[sid].role = "student"
    /\ s.user_id = session[sid].id
    /\ s.status = <<"Active">>
    /\ s.first_name = <<"Ann">>
    /\ session[eid].role = "employer"
    /\ \E q \in StudentIdentityRequests :
         /\ q.body.status = <<"Completed">>
         /\ PostStudentUpdateIdentity(sid, q).resp.msg = "Profile updated."

\* ------------------------------------------------------------------- C24
\* C24: initDb is non-destructive. No step of an initDb removes or changes a
\* users row or removes a table, and an initDb that fails has added no table
\* to the database: the schema is as it was before the call.
C24_InitDbNonDestructive ==
  [][/\ users \subseteq users'
     /\ tables \subseteq tables'
     /\ \A i \in Instances :
          (boot[i].pc # "exited" /\ boot'[i].pc = "exited") =>
            ~ boot'[i].changed]_vars

C26_CreateAllOrNothing ==
  (\A sid \in ErrorSessions : pending[sid].stage # "handler") =>
    \A u \in users :
      /\ u.role = "student" => \E t \in students : t.user_id = u.id
      /\ u.role = "employer" => \E e \in employers : e.user_id = u.id

\* ------------------------------------------------------------------- C27
\* C27: when an upload request has finished, the file it stored is in the
\* upload directory exactly if a row of student_documents names it: an
\* upload whose INSERT failed leaves the upload directory as it was, and an
\* upload that added a row has its file stored; and every row of
\* student_documents refers to an existing student.
C27_FileIffRow ==
  /\ \A sid \in Sessions : \A req \in DocsUploadRequests :
        LET o == PostAdminStudentsDocsUpload(sid, req) IN
        /\ \A f \in o.files \ uploadDir :
              \E d \in o.documents : d.stored_filename = f.name
        /\ \A d \in o.documents \ student_documents :
              \E f \in o.files : f.name = d.stored_filename
        /\ o.resp = ServerError => o.files = uploadDir
  /\ \A d \in student_documents : d.student_id \in Ids(students)

\* ------------------------------------------------------------------- C28
\* C28: an instance has answered a request (its handler has issued its
\* query) only if its initDb has completed; in particular an instance whose
\* initDb failed has exited without having served a request.
C28_ServesOnlyAfterInit ==
  \A i \in Instances : boot[i].served => boot[i].pc = "ready"

\* ------------------------------------------------- the identifier model
\* The revision src/unnamed/part_004, the one that generates a student
\* identifier: students holds its rows (id SERIAL, student_id VARCHAR(6)
\* UNIQUE NOT NULL), the admin works in two browsers, and a create is its
\* two queries, the SELECT of the next identifier and the INSERT.
DigitChars == << "0", "1", "2", "3", "4", "5", "6", "7", "8", "9" >>

\* String(n) of a number that is not negative
RECURSIVE String(_)
String(n) ==
  IF n < 10 THEN << DigitChars[n + 1] >>
  ELSE String(n \div 10) \o << DigitChars[(n % 10) + 1] >>

\* s.padStart(targetLength, padString) with a pad of one character
padStart(s, targetLength, padString) ==
  IF Len(s) >= targetLength THEN s
  ELSE [k \in 1..(targetLength - Len(s)) |-> padString] \o s

\* student_id::int
RECURSIVE CastInt(_)
CastInt(s) ==
  IF s = << >> THEN 0
  ELSE CastInt(SubSeq(s, 1, Len(s) - 1)) * 10
       + (CHOOSE d \in 0..9 : DigitChars[d + 1] = s[Len(s)])

RECURSIVE Max(_)
Max(S) ==
  LET x == CHOOSE y \in S : TRUE IN
  IF S = {x} THEN x
  ELSE LET m == Max(S \ {x}) IN IF x > m THEN x ELSE m

\* SELECT COALESCE(MAX(student_id::int), 999) + 1 AS next FROM students
SelectNextStudentId ==
  IF students = {} THEN 999 + 1
  ELSE Max({CastInt(r.student_id) : r \in students}) + 1

\* the rows the INSERT leaves: student_id is UNIQUE
InsertStudent(studentId) ==
  IF \E r \in students : r.student_id = studentId
  THEN [code |-> UniqueViolation, rows |-> students]
  ELSE [code |-> NoError,
        rows |-> students \cup {[id |-> students_id_seq,
                                  student_id |-> studentId]}]

\* the database of part_004 with no student yet; both browsers of the
\* admin are logged in
InitIds ==
  /\ students_checked = FALSE
  /\ users = {SeededAdmin}
  /\ users_id_seq = 2
  /\ students = {}
  /\ students_id_seq = 1
  /\ employers = {}
  /\ employers_id_seq = 1
  /\ student_status_history = {}
  /\ student_documents = {}
  /\ student_documents_id_seq = 1
  /\ uploadDir = {}
  /\ access_requests = {}
  /\ access_requests_id_seq = 1
  /\ randomBytesDrawn = 0
  /\ pending = [sid \in Sessions |-> NoRequest]
  /\ boot = [i \in Instances |-> Ready]
  /\ tables = {"students", "users"}
  /\ issued = {}
  /\ session = [sid \in Sessions |->
                  [id |-> SeededAdmin.id, email |-> SeededAdmin.email,
                   role |-> SeededAdmin.role]]

IdsUnchanged ==
  UNCHANGED << students_checked, users, users_id_seq, employers,
               employers_id_seq, student_status_history, student_documents,
               student_documents_id_seq, uploadDir, access_requests,
               access_requests_id_seq, randomBytesDrawn, boot, tables,
               session >>

\* function requireAdmin(req, res, next)
requireAdmin(sid) == session[sid].id # 0

\* POST /admin/students, the first query: the next identifier is read
PostAdminStudentsSelect(sid) ==
  /\ requireAdmin(sid)
  /\ pending[sid].stage # "handler"
  /\ students_id_seq <= MaxUserId
  /\ pending' = [pending EXCEPT ![sid] =
                   [stage |-> "handler", route |-> "POST /admin/students",
                    req |-> << >>, done |-> SelectNextStudentId,
                    resp |-> NoRequest.resp]]
  /\ UNCHANGED << students, students_id_seq, issued >>
  /\ IdsUnchanged

\* POST /admin/students, the second query: the INSERT with the identifier
\* that was read; the handler is async and not wrapped, so a rejected INSERT
\* is a rejection nobody handles
PostAdminStudentsInsert(sid) ==
  /\ pending[sid].stage = "handler"
  /\ LET studentId == padStart(String(pending[sid].done), 6, "0")
         r == InsertStudent(studentId)
     IN /\ students' = r.rows
        /\ students_id_seq' = students_id_seq + 1
        /\ issued' = IF r.code = NoError THEN issued \cup {studentId}
                                          ELSE issued
        /\ pending' = [pending EXCEPT ![sid] =
                         [stage |-> IF r.code = NoError THEN "responded"
                                    ELSE "unhandledRejection",
                          route |-> "POST /admin/students", req |-> << >>,
                          done |-> pending[sid].done,
                          resp |-> IF r.code = NoError
                                   THEN redirect("/admin", "")
                                   ELSE NoRequest.resp]]
  /\ IdsUnchanged

\* POST /admin/delete/:id
PostAdminDelete(sid, id) ==
  /\ requireAdmin(sid)
  /\ \E r \in students : r.id = id
  /\ students' = {r \in students : r.id # id}
  /\ UNCHANGED << students_id_seq, issued, pending >>
  /\ IdsUnchanged

NextIds ==
  \/ \E sid \in Sessions : PostAdminStudentsSelect(sid)
  \/ \E sid \in Sessions : PostAdminStudentsInsert(sid)
  \/ \E sid \in Sessions, id \in 1..(MaxUserId + 2) : PostAdminDelete(sid, id)

SpecIds == InitIds /\ [][NextIds]_vars

\* ------------------------------------------------------------------- C29
\* C29: a generated student identifier is unique over the whole history. No
\* two rows of students have the same student_id; the identifier a create
\* inserts was never inserted before, also not for a student that has been
\* deleted since; and no create fails because its identifier is taken.
C29_StudentIdNeverReused ==
  [][/\ \A r1 \in students' : \A r2 \in students' :
          r1.student_id = r2.student_id => r1.id = r2.id
     /\ \A r \in students' \ students : r.student_id \notin issued
     /\ \A sid \in Sessions : pending'[sid].stage # "unhandledRejection"]_vars

\* ------------------------------------------------------------------- C30
\* C30: a session that is logged in as a user the admin has deleted reads
\* and changes no row. Whatever it requests, every row of users, students,
\* employers, student_status_history and student_documents and every stored
\* file stays as it is; no protected route answers it with a page or a
\* file; and its dashboards redirect it to the login.
C30_DeletedUserSessionIsInert ==
  \A sid \in Sessions :
    (session[sid].id # 0 /\ session[sid].id \notin Ids(users)) =>
      \A route \in Routes : \A req \in Requests(route) :
        LET o == Handle(route, sid, req) IN
        /\ o.users = users
        /\ o.students = students
        /\ o.employers = employers
        /\ o.history = student_status_history
        /\ o.documents = student_documents
        /\ o.files = uploadDir
        /\ route \in ProtectedRoutes => o.resp.status # 200
        /\ route \in {"GET /student", "GET /employer"} =>
             o.resp.location = "/login"

\* C30, witness: a browser is still logged in as a student whose user the
\* admin has deleted, while another student has a profile the browser's
\* update forms could have written to.
C30_StaleStudentSession ==
  \E sid \in Sessions :
    /\ session[sid].role = "student"
    /\ session[sid].id \notin Ids(users)
    /\ students # {}
    /\ PostStudentUpdateIdentity(sid,
          CHOOSE req \in Requests("POST /student/update-identity") :
            ~ IdentityIncomplete(req.body)).resp.msg = "Profile updated."
====
